---- MODULE Spec2Model ----
(***************************************************************************)
(* State-machine model of the two-stage depth video super-resolution       *)
(* networks DVSR (src/model/dvsr.py) and HVSR (src/model/hvsr.py).         *)
(*                                                                         *)
(* One model instance is constructed in Init and then serves any number of *)
(* forward calls.  A call is followed statement by statement: forward,     *)
(* hg_forward (stage 1 and stage 2), compute_flow, the four propagate      *)
(* passes, upsample, and the final softmax blend.                          *)
(*                                                                         *)
(* Tensors are modelled by what the control flow can observe of them:      *)
(*   - a measurement frame is one integer pixel value, so that frames can  *)
(*     be subtracted and compared exactly as the mirror test does;         *)
(*   - the learned operators (flow network, convolutions, residual stacks, *)
(*     deformable alignment) are free constructors: the result is a record *)
(*     that names the operator and the operands it was applied to, so two  *)
(*     results are equal only when the same operator met the same operands;*)
(*   - a propagated feature refers to the propagated features it was built *)
(*     from by their tag <<branch, frame>>, read off the element that was  *)
(*     actually fetched from the list;                                     *)
(*   - shapes are carried as integers next to the values.                  *)
(* The batch dimension n is orthogonal to every index below and is fixed   *)
(* to 1.                                                                  *)
(***************************************************************************)
EXTENDS Integers, Sequences, FiniteSets, TLC

\* ------------------------------------------------------------------ bounds
MaxT == 4                  \* longest input sequence
MaxCacheLength == 3        \* largest configured cpu_cache_length
MaxH == 2                  \* largest sensor height / width
MaxPeaks == 2              \* largest configured mpeaks (HVSR)

PixelVals == 0 .. 1        \* values of a measurement frame
Scales == {2, 4, 6, 8}     \* configured sensor downsampling scales
Lengths == 1 .. MaxT
Variants == {"DVSR", "HVSR"}

VARIABLES
    variant,            \* which class was constructed
    scale,              \* self.scale
    cpu_cache_length,   \* self.cpu_cache_length
    mpeaks,             \* self.mpeaks (HVSR; 0 for DVSR)
    is_mirror_extended, \* self.is_mirror_extended
    cpu_cache,          \* self.cpu_cache
    pc,                 \* position of the call in flight
    err,                \* the exception that ended the call, if any
    hg_idx,             \* stage of the hg_forward in flight (0: none)
    in_lqs,             \* forward's lqs argument: [frames, c, h, w, cdf_c, rebin_c]
    lqs,                \* lqs inside forward after repeat_interleave
    guides,             \* guides argument: [frames, h, w]
    is_cuda,            \* lqs.is_cuda
    extra_inputs,       \* hg_forward's extra_inputs (stage 2)
    extra_feats,        \* hg_forward's extra_feats (stage 2)
    feats_keys,         \* keys of the feats dict, in insertion order
    feats,              \* feats dict: key -> list
    flows_forward,      \* hg_forward's flows_forward: [none, val]
    flows_backward,     \* hg_forward's flows_backward: [none, val]
    module,             \* index (1..4) of the propagation branch in flight
    flows,              \* propagate's flows argument
    i,                  \* loop counter of the loop in flight
    feat_prop,          \* propagate's accumulator
    step,               \* locals of the last propagate iteration
    ups,                \* upsample's depths, confs, feats_fused
    stage1,             \* what hg_forward(hg_idx=1) returned
    stage2,             \* what hg_forward(hg_idx=2) returned
    side,               \* HVSR: inp_error and pos_encoding
    result,             \* what forward returned
    aux                 \* a helper function evaluated on its own: [fn, arguments, locals]

\* the model instance and the forward call in flight
net == <<variant, scale, cpu_cache_length, mpeaks, is_mirror_extended, cpu_cache,
          pc, err, hg_idx, in_lqs, lqs, guides, is_cuda, extra_inputs, extra_feats,
          feats_keys, feats, flows_forward, flows_backward, module, flows, i,
          feat_prop, step, ups, stage1, stage2, side, result>>
vars == <<net, aux>>

\* ----------------------------------------------------------- list helpers
\* Python list / tensor indexing along one axis: 0-based, negative from the end.
PyAt(s, k) == IF k >= 0 THEN s[k + 1] ELSE s[Len(s) + k + 1]
PyInRange(s, k) == (k >= 0 /\ k < Len(s)) \/ (k < 0 /\ -k <= Len(s))
\* s[::-1] and tensor.flip along the time axis
Reversed(s) == [k \in 1 .. Len(s) |-> s[Len(s) + 1 - k]]
\* range(a, b) as a list
PyRange(a, b) == [k \in 1 .. (IF b > a THEN b - a ELSE 0) |-> a + k - 1]
Tail2(s) == SubSeq(s, 2, Len(s))

RECURSIVE SumSeq(_)
SumSeq(s) == IF Len(s) = 0 THEN 0 ELSE s[1] + SumSeq(Tail(s))


\* ------------------------------------------------ the external operators
\* Learned or library operators whose code is outside the two modules.  Each is
\* a free constructor over its operands.
SPyNet(hg, ref, supp) == [op |-> "spynet", hg |-> hg, ref |-> ref, supp |-> supp]
ConvGuideInit(hg, x) == [op |-> "conv_guide_init", hg |-> hg, x |-> x]
FeatExtract(hg, parts) == [op |-> "feat_extract", hg |-> hg, x |-> parts]
Interpolate(f) == [op |-> "interpolate_quarter", x |-> f]
ZeroFlow == [op |-> "zeros"]
ZeroTag == <<"zeros", -1>>
\* the tag of a propagated feature: the branch and frame it was computed for
Tag(v) == <<v.br, v.fr>>

None == [none |-> TRUE, val |-> <<>>]
Some(v) == [none |-> FALSE, val |-> v]
NoErr == [kind |-> "", line |-> 0]
Raise(kind, line) == [kind |-> kind, line |-> line]

Modules == <<"backward_1", "forward_1", "backward_2", "forward_2">>
IsBackward(m) == m \in {"backward_1", "backward_2"}

\* output size of Conv2d(kernel 3, stride 2, padding 1)
Stride2(x) == ((x + 2 - 3) \div 2) + 1
\* conv_guide_init: two stride-2 convolutions
GuideFeatSize(x) == Stride2(Stride2(x))
\* a prediction head with a single PixelShufflePack(scale 2)
UpsampleSizeOnce(x) == 2 * x
\* final_pred: two PixelShufflePack(scale 2) ; img_upsample: scale_factor 4
UpsampleSize(x) == 4 * x

\* --------------------------------------------------- SequenceSymmetryDetector
\* torch.norm(x) == 0: the 2-norm is the root of the sum of squares
NormIsZero(d) == SumSeq([k \in 1 .. Len(d) |-> d[k] * d[k]]) = 0

\* the mirror test, comparing the halves without reversing the second one
check_without_flip(flag, l) ==
    IF Len(l) % 2 = 0
    THEN LET half == Len(l) \div 2
             lqs_1 == SubSeq(l, 1, half)
             lqs_2 == SubSeq(l, half + 1, Len(l))
             d == [k \in 1 .. half |-> lqs_1[k] - lqs_2[k]]
         IN  IF NormIsZero(d) THEN TRUE ELSE flag
    ELSE flag

\* the value of self.is_mirror_extended after check_if_mirror_extended(lqs),
\* entered with the value flag; l is the list of frames along dim 1
check_if_mirror_extended(flag, l) ==
    IF Len(l) % 2 = 0
    THEN LET half == Len(l) \div 2
             lqs_1 == SubSeq(l, 1, half)
             lqs_2 == SubSeq(l, half + 1, Len(l))
             d == [k \in 1 .. half |-> lqs_1[k] - Reversed(lqs_2)[k]]
         IN  IF NormIsZero(d) THEN TRUE ELSE flag
    ELSE flag

\* the offload test with the threshold itself offloading
CpuCacheFlagInclusive(t, cuda, len) == t >= len /\ cuda

\* the value hg_forward assigns to self.cpu_cache
CpuCacheFlag(t, cuda, len) == t > len /\ cuda

\* --------------------------------------------------------------- FlowEstimator
\* the pair-by-pair loop pairing every frame with the first frame of guides_2
RECURSIVE FlowLoopFirstPair(_, _, _, _, _)
FlowLoopFirstPair(hg, a, b, tt, acc) ==
    IF tt >= Len(a) THEN acc
    ELSE FlowLoopFirstPair(hg, a, b, tt + 1, Append(acc, SPyNet(hg, PyAt(a, tt), PyAt(b, 0))))

\* the pair-by-pair loop "for tt in range(t-1)" with append, then torch.cat
RECURSIVE FlowLoop(_, _, _, _, _)
FlowLoop(hg, a, b, tt, acc) ==
    IF tt >= Len(a) THEN acc
    ELSE FlowLoop(hg, a, b, tt + 1, Append(acc, SPyNet(hg, PyAt(a, tt), PyAt(b, tt))))

\* one call of the flow network on all pairs, reshaped to (n, t-1, 2, h, w)
FlowBatched(hg, a, b) == [k \in 1 .. Len(a) |-> SPyNet(hg, a[k], b[k])]

FlowPairs(hg, a, b, cache) ==
    IF cache THEN FlowLoop(hg, a, b, 0, <<>>) ELSE FlowBatched(hg, a, b)

\* compute_flow(guides, hg_idx): [err, fwd, bwd]
compute_flow(g, hg, cache, mirror) ==
    LET t == Len(g)
        guides_1 == SubSeq(g, 1, t - 1)
        guides_2 == SubSeq(g, 2, t)
        bwd == Some(FlowPairs(hg, guides_1, guides_2, cache))
        fwd == IF mirror THEN None ELSE Some(FlowPairs(hg, guides_2, guides_1, cache))
    IN  IF t - 1 = 0
        \* no pair: torch.cat of an empty list (205), reshape(-1, ...) of no element (208)
        THEN [err |-> Raise("RuntimeError", IF cache THEN 205 ELSE 208),
              fwd |-> None, bwd |-> None]
        ELSE IF cache /\ fwd.none
        THEN [err |-> Raise("AttributeError", 234), fwd |-> fwd, bwd |-> bwd]
        ELSE [err |-> NoErr, fwd |-> fwd, bwd |-> bwd]

\* a flow tensor resized without its reshape to (n, t - 1, 2, h, w)
FlowViewAny(nflows, t) == TRUE

\* lines 469 and 477: .view(n, t - 1, 2, h, w) of the resized flows, t being
\* lqs.size(1); the element counts must agree
FlowViewOK(nflows, t) == nflows = t - 1

\* lines 464-479 of hg_forward: both flow tensors are resized to feature resolution
InterpolateFlows(f) == Some([k \in 1 .. Len(f.val) |-> Interpolate(f.val[k])])

\* ----------------------------------------------------- SpatialFeatureExtractor
\* the side input of conv_guide_init for frame k (0-based): the guide frame in
\* stage 1, the stage-1 side channels of that frame in stage 2
GuideInput(hg, g, xin, k) ==
    IF hg = 1 THEN PyAt(g.frames, k)
    ELSE [c \in 1 .. Len(xin.parts) |-> PyAt(xin.parts[c].val, k)]

SpatialOf(hg, l, g, xin, xfeats, k) ==
    IF hg = 1
    THEN FeatExtract(hg, <<PyAt(l.frames, k), ConvGuideInit(hg, GuideInput(hg, g, xin, k))>>)
    ELSE FeatExtract(hg, <<PyAt(l.frames, k), ConvGuideInit(hg, GuideInput(hg, g, xin, k)),
                           PyAt(xfeats, k)>>)

\* channels conv_guide_init[hg] was built for
GuideChannels(v, hg) == IF hg = 1 THEN 3 ELSE IF v = "DVSR" THEN 2 ELSE 2 + 6 + 1
SideChannels(xin) == SumSeq([c \in 1 .. Len(xin.parts) |-> xin.parts[c].ch])
\* height and width of the tensor conv_guide_init is applied to
SideH(hg, g, xin) == IF hg = 1 THEN g.h ELSE xin.h
SideW(hg, g, xin) == IF hg = 1 THEN g.w ELSE xin.w
SideC(hg, g, xin) == IF hg = 1 THEN 3 ELSE SideChannels(xin)
\* frames of the tensor conv_guide_init is applied to: guides in stage 1, the
\* stage-1 outputs (one per frame of lqs) in stage 2
SideT(hg, l, g) == IF hg = 1 THEN Len(g.frames) ELSE Len(l.frames)
\* guides[:, i] of the frame-sequential loop (line 408) exists
GuideFrameOK(hg, l, g, ii) == ii < SideT(hg, l, g)

\* frame-sequential extraction: torch.cat([lqs[:, i], guide_feat, ...], dim=1)
\* needs equal heights and widths
SeqSpatialOK(v, hg, l, g, xin) ==
    /\ SideC(hg, g, xin) = GuideChannels(v, hg)
    /\ GuideFeatSize(SideH(hg, g, xin)) = l.h
    /\ GuideFeatSize(SideW(hg, g, xin)) = l.w

\* batched extraction: x.view(-1, C, 4h, 4w) must divide the elements of x, and
\* the batch it yields must be the batch of lqs.view(-1, c, h, w) for torch.cat
BatchedSpatialOK(v, hg, l, g, xin) ==
    LET t == Len(l.frames)
        numel == SideT(hg, l, g) * SideC(hg, g, xin) * SideH(hg, g, xin) * SideW(hg, g, xin)
        per == GuideChannels(v, hg) * (4 * l.h) * (4 * l.w)
    IN  /\ per > 0
        /\ numel % per = 0
        /\ numel \div per = t
        /\ GuideFeatSize(4 * l.h) = l.h
        /\ GuideFeatSize(4 * l.w) = l.w

\* ------------------------------------------------------------ PropagationEngine
Keys == {"spatial", "backward_1", "forward_1", "backward_2", "forward_2"}
EmptyFeats == [k \in Keys |-> <<>>]
\* flows.new_zeros(n, mid_channels, h, w)
ZeroFeat == [br |-> "zeros", fr |-> -1]

\* every pass visiting the frames in ascending order
FrameIdxAscending(m, t) == PyRange(0, t + 1)

\* the flow subscripts taken from the frame subscripts in both directions
FlowIdxAsFrameIdx(m, t) == IF IsBackward(m) THEN Reversed(PyRange(0, t + 1)) ELSE PyRange(0, t + 1)

\* frame_idx, flow_idx and mapping_idx of propagate, t being flows.size(1)
FrameIdx(m, t) == IF IsBackward(m) THEN Reversed(PyRange(0, t + 1)) ELSE PyRange(0, t + 1)
FlowIdx(m, t) == IF IsBackward(m) THEN FrameIdx(m, t) ELSE PyRange(-1, t)
MappingIdx(n) == PyRange(0, n) \o Reversed(PyRange(0, n))

\* the other keys with the first branch left out as well
OtherKeysAfterFirst(keys, m) ==
    SelectSeq(keys, LAMBDA k : k \notin {"spatial", m, "backward_1"})

\* "for k in feats if k not in ['spatial', module_name]", in dict order
OtherKeys(keys, m) == SelectSeq(keys, LAMBDA k : k \notin {"spatial", m})

\* every subscript of iteration ii of propagate is inside its list
PropagateIndexOK(fs, keys, fl, m, ii) ==
    LET t == Len(fl)
        idx == PyAt(FrameIdx(m, t), ii)
        map == MappingIdx(Len(fs["spatial"]))
        others == OtherKeys(keys, m)
    IN  /\ PyInRange(map, idx)
        /\ PyInRange(fs["spatial"], PyAt(map, idx))
        /\ (ii > 0) => PyInRange(fl, PyAt(FlowIdx(m, t), ii))
        /\ (ii > 1) => (PyInRange(fs[m], -2) /\ PyInRange(fl, PyAt(FlowIdx(m, t), ii - 1)))
        /\ \A c \in 1 .. Len(others) : PyInRange(fs[others[c]], idx)

\* the elements iteration ii reads from the other branches:
\* [feats[k][idx] for k in feats if k not in ["spatial", module_name]]
OtherReads(fs, keys, fl, m, ii) ==
    LET idx == PyAt(FrameIdx(m, Len(fl)), ii)
        others == OtherKeys(keys, m)
    IN  [c \in 1 .. Len(others) |->
            [key |-> others[c], at |-> idx, got |-> Tag(PyAt(fs[others[c]], idx))]]

\* the subscripts iteration ii applies to flows: flow_idx[i] (line 272) and, for
\* ii > 1, flow_idx[i - 1] (line 288)
FlowReads(fl, m, ii) ==
    LET fi == FlowIdx(m, Len(fl))
    IN  IF ii = 0 THEN <<>>
        ELSE IF ii = 1 THEN <<PyAt(fi, ii)>>
        ELSE <<PyAt(fi, ii), PyAt(fi, ii - 1)>>

\* the alignment guard with the first aligned step one step late
NeedsAlignmentFromSecond(ii) == ii > 1

\* line 269, "if i > 0": the step aligns the accumulator before the residual stack
NeedsAlignment(ii) == ii > 0

\* the value iteration ii appends to feats[module_name]: the accumulator after
\* alignment (ii > 0) plus the residual stack over [feat_current, others, feat_prop]
PropagateIter(fs, keys, fl, m, hg, ii, fprop) ==
    LET t == Len(fl)
        idx == PyAt(FrameIdx(m, t), ii)
        feat_current == PyAt(fs["spatial"], PyAt(MappingIdx(Len(fs["spatial"])), idx))
        reads == OtherReads(fs, keys, fl, m, ii)
    IN  [br |-> m, fr |-> idx, hg |-> hg,
         cur |-> feat_current,
         acc |-> Tag(fprop),
         aligned |-> NeedsAlignment(ii),
         flow_n1 |-> IF NeedsAlignment(ii) THEN PyAt(fl, PyAt(FlowIdx(m, t), ii)) ELSE ZeroFlow,
         flow_n2 |-> IF ii > 1 THEN PyAt(fl, PyAt(FlowIdx(m, t), ii - 1)) ELSE ZeroFlow,
         n2 |-> IF ii > 1 THEN Tag(PyAt(fs[m], -2)) ELSE ZeroTag,
         others |-> [c \in 1 .. Len(reads) |-> reads[c].got]]

\* the output written over the last element of a non-empty list
AppendOutputOverLast(branch, out) ==
    IF branch = <<>> THEN <<out>> ELSE [branch EXCEPT ![Len(branch)] = out]

\* lines 313-318: the output is appended; the host copy of the offload path
\* replaces the last element by a tensor of the same values
AppendOutput(branch, out) == Append(branch, out)

\* a backward branch left in the order it was appended
FinishBranchNoReverse(m, branch) == branch

\* lines 320-321: a backward branch is reversed once the loop has ended
FinishBranch(m, branch) == IF IsBackward(m) THEN Reversed(branch) ELSE branch

\* hg_forward lines 488-493: the flow tensor handed to propagate
SelectFlows(m, fwd, bwd) ==
    IF IsBackward(m) THEN bwd.val
    ELSE IF ~fwd.none THEN fwd.val
    ELSE Reversed(bwd.val)

\* ------------------------------------------------------------ FrameReconstructor
\* every branch list still holds an element to pop, and the spatial subscript exists
UpsampleIndexOK(fs, keys, ii) ==
    LET others == OtherKeys(keys, "spatial")
        map == MappingIdx(Len(fs["spatial"]))
    IN  /\ \A c \in 1 .. Len(others) : Len(fs[others[c]]) > 0
        /\ PyInRange(map, ii)
        /\ PyInRange(fs["spatial"], PyAt(map, ii))

\* hr of frame ii: spatial feature first, then the head of every branch list
UpsampleInput(fs, keys, ii) ==
    LET others == OtherKeys(keys, "spatial")
    IN  <<PyAt(fs["spatial"], PyAt(MappingIdx(Len(fs["spatial"])), ii))>>
        \o [c \in 1 .. Len(others) |-> Tag(Head(fs[others[c]]))]

\* feats[k].pop() for every branch list
PopLasts(fs, keys) ==
    [k \in Keys |-> IF k # "spatial" /\ (\E c \in 1 .. Len(keys) : keys[c] = k)
                    THEN SubSeq(fs[k], 1, Len(fs[k]) - 1) ELSE fs[k]]

\* feats[k].pop(0) for every branch list
PopHeads(fs, keys) ==
    [k \in Keys |-> IF k # "spatial" /\ (\E c \in 1 .. Len(keys) : keys[c] = k)
                    THEN Tail(fs[k]) ELSE fs[k]]

Reconstruction(hg, hr) == [op |-> "reconstruction", hg |-> hg, x |-> hr]
\* the two channels of final_pred, split by torch.chunk(hr, 2, dim=1)
PredDepth(hg, fused, lq) == [op |-> "depth", hg |-> hg, x |-> fused, lq |-> lq]
PredConf(hg, fused) == [op |-> "conf", hg |-> hg, x |-> fused]
\* the measurement channels upsample adds to the depth channel
LqChannels(v, c) == IF v = "DVSR" THEN c ELSE (IF c < 1 THEN c ELSE 1)
\* channels of depth + img_upsample(lqs[:, i]) by broadcasting
BroadcastC(a, b) == IF a = 1 THEN b ELSE a

\* ------------------------------------------------------------------ the state
NoStage == [returned |-> FALSE, depth |-> <<>>, conf |-> <<>>, feats |-> None,
            c |-> 0, conf_c |-> 0, h |-> 0, w |-> 0]
NoSide == [ready |-> FALSE, cdf_c |-> 0, rebin_c |-> 0, inp_error |-> <<>>,
           pos_encoding |-> <<>>]
NoExtra == [parts |-> <<>>, h |-> 0, w |-> 0]
NoResult == [returned |-> FALSE, depth_final |-> <<>>, d_depth |-> <<>>,
             rgb_depth |-> <<>>, d_conf |-> <<>>, rgb_conf |-> <<>>,
             c |-> 0, h |-> 0, w |-> 0]
NoStep == [i |-> -1, idx |-> -1, reads |-> <<>>, flow_reads |-> <<>>, out |-> ZeroFeat]
NoUps == [depths |-> <<>>, confs |-> <<>>, feats_fused |-> <<>>]
NoTensor == [frames |-> <<>>, c |-> 0, h |-> 0, w |-> 0]

\* ------------------------------------------------------- inputs of the model
\* guidance sequences offered to forward: all frames distinct, or a mirror extension
GuideSeqs(t) == {[k \in 1 .. t |-> k],
                 [k \in 1 .. t |-> IF k <= t + 1 - k THEN k ELSE t + 1 - k]}
\* two measurement sequences: constant (mirror-extended when t is even), and not
SampleLqs(t) == {[k \in 1 .. t |-> 0], [k \in 1 .. t |-> IF k = 1 THEN 1 ELSE 0]}
\* widths of the compressed CDF / rebin-index blocks offered to HVSR.forward:
\* 2*mpeaks+2 as documented, and 2*mpeaks+3
BlockWidths(v, m) == IF v = "HVSR" THEN {2 * m + 2, 2 * m + 3} ELSE {0}
WideBlock(v, m) == IF v = "HVSR" THEN 2 * m + 3 ELSE 0

\* calls that vary the content of the sequences, on the smallest sensor
ContentCalls(v, m) ==
    UNION {{[l |-> l, g |-> g, hh |-> 1, ww |-> 1, bw |-> WideBlock(v, m)] :
                l \in [1 .. t -> PixelVals], g \in GuideSeqs(t)} : t \in Lengths}
\* calls that vary the sensor resolution and the channel layout
ShapeCalls(v, m) ==
    UNION {{[l |-> l, g |-> [k \in 1 .. t |-> k], hh |-> hh, ww |-> MaxH + 1 - hh, bw |-> bw] :
                l \in SampleLqs(t), hh \in 1 .. MaxH, bw \in BlockWidths(v, m)} : t \in Lengths}
\* calls whose guidance sequence is one frame shorter or longer than lqs
LengthCalls(v, m) ==
    UNION {{[l |-> l, g |-> [k \in 1 .. tg |-> k], hh |-> 1, ww |-> 1, bw |-> WideBlock(v, m)] :
                l \in SampleLqs(t), tg \in {t - 1, t + 1} \ {0}} : t \in Lengths}
Calls(v, m) == ContentCalls(v, m) \cup ShapeCalls(v, m) \cup LengthCalls(v, m)

\* configurations the instance is constructed with
CacheLengths == {MaxCacheLength - 1, MaxCacheLength}
Configs ==
    {c \in [variant : Variants, scale : Scales, len : CacheLengths, mpeaks : 0 .. MaxPeaks] :
        /\ (c.variant = "DVSR") = (c.mpeaks = 0)
        /\ c.mpeaks > 1 => (c.scale = 4 /\ c.len = MaxCacheLength)}

\* no helper function is being evaluated
NoAux == [fn |-> "none"]

\* __init__ with the configuration c: the instance after construction, no call
\* made yet
Construct(c) ==
    /\ variant = c.variant
    /\ scale = c.scale
    /\ cpu_cache_length = c.len
    /\ mpeaks = c.mpeaks
    /\ is_mirror_extended = FALSE
    /\ cpu_cache = FALSE
    /\ pc = "idle"
    /\ err = NoErr
    /\ hg_idx = 0
    /\ in_lqs = NoTensor
    /\ lqs = NoTensor
    /\ guides = NoTensor
    /\ is_cuda = FALSE
    /\ extra_inputs = NoExtra
    /\ extra_feats = <<>>
    /\ feats_keys = <<>>
    /\ feats = EmptyFeats
    /\ flows_forward = None
    /\ flows_backward = None
    /\ module = 0
    /\ flows = <<>>
    /\ i = 0
    /\ feat_prop = ZeroFeat
    /\ step = NoStep
    /\ ups = NoUps
    /\ stage1 = NoStage
    /\ stage2 = NoStage
    /\ side = NoSide
    /\ result = NoResult

Init ==
    /\ \E c \in Configs : Construct(c)
    /\ aux = NoAux

Config == <<variant, scale, cpu_cache_length, mpeaks>>
StageLocals == <<feats_keys, feats, flows_forward, flows_backward, module, flows, i,
                 feat_prop, step, ups>>

\* x.repeat_interleave(r, dim=3).repeat_interleave(r, dim=4)
RepeatInterleave(x, r) == [x EXCEPT !.h = x.h * r, !.w = x.w * r]

\* HVSR.forward lines 678-680: the three slices of the channel axis of lqs_comb
SliceWidth(lo, hi, c) ==
    LET a == IF lo < c THEN lo ELSE c
        b == IF hi < c THEN hi ELSE c
    IN  IF b > a THEN b - a ELSE 0
PeakChannels(m, c) == SliceWidth(0, m, c)
CdfChannels(m, c) == SliceWidth(m, 3 * m + 3, c)
RebinChannels(m, c) == SliceWidth(3 * m + 3, c, c)

\* the failing call leaves with an exception
Fail(kind, line) ==
    /\ pc' = "error"
    /\ err' = Raise(kind, line)

\* forward, up to the first hg_forward call (dvsr.py 514-517, hvsr.py 678-686)
Forward ==
    /\ pc = "idle"
    /\ \E a \in Calls(variant, mpeaks), cuda \in BOOLEAN :
        LET cin == IF variant = "DVSR" THEN 1 ELSE mpeaks + 2 * a.bw
            x == [frames |-> a.l, c |-> cin, h |-> a.hh, w |-> a.ww]
            peaks == IF variant = "DVSR" THEN x
                     ELSE [x EXCEPT !.c = PeakChannels(mpeaks, cin)]
        IN  /\ in_lqs' = x
            /\ lqs' = RepeatInterleave(peaks, scale \div 4)
            /\ guides' = [frames |-> a.g, c |-> 3, h |-> scale * a.hh, w |-> scale * a.ww]
            /\ is_cuda' = cuda
            /\ side' = IF variant = "DVSR" THEN NoSide
                       ELSE [NoSide EXCEPT !.cdf_c = CdfChannels(mpeaks, cin),
                                           !.rebin_c = RebinChannels(mpeaks, cin)]
    /\ pc' = "hg_forward"
    /\ hg_idx' = 1
    /\ UNCHANGED <<aux, Config, is_mirror_extended, cpu_cache, err, extra_inputs, extra_feats,
                   StageLocals, stage1, stage2, result>>

\* hg_forward lines 390-401: the offload flag, the mirror test, feats = {}
HgForwardEnter ==
    /\ pc = "hg_forward"
    /\ cpu_cache' = CpuCacheFlag(Len(lqs.frames), is_cuda, cpu_cache_length)
    /\ is_mirror_extended' = check_if_mirror_extended(is_mirror_extended, lqs.frames)
    /\ feats' = EmptyFeats
    /\ feats_keys' = IF cpu_cache' THEN <<"spatial">> ELSE <<>>
    /\ i' = 0
    /\ pc' = IF cpu_cache' THEN "spatial_seq" ELSE "spatial_batched"
    /\ UNCHANGED <<aux, Config, err, hg_idx, in_lqs, lqs, guides, is_cuda, extra_inputs,
                   extra_feats, flows_forward, flows_backward, module, flows,
                   feat_prop, step, ups, stage1, stage2, side, result>>

\* hg_forward lines 405-428: one frame of the frame-sequential feature extraction
SpatialSequential ==
    /\ pc = "spatial_seq"
    /\ IF ~GuideFrameOK(hg_idx, lqs, guides, i)
       THEN /\ Fail("IndexError", 408)
            /\ UNCHANGED <<feats, i>>
       ELSE IF ~SeqSpatialOK(variant, hg_idx, lqs, guides, extra_inputs)
       THEN /\ Fail("RuntimeError", IF hg_idx = 1 THEN 411 ELSE 418)
            /\ UNCHANGED <<feats, i>>
       ELSE /\ feats' = [feats EXCEPT !["spatial"] =
                            Append(@, SpatialOf(hg_idx, lqs, guides, extra_inputs, extra_feats, i))]
            /\ i' = i + 1
            /\ pc' = IF i + 1 < Len(lqs.frames) THEN "spatial_seq" ELSE "compute_flow"
            /\ UNCHANGED err
    /\ UNCHANGED <<aux, Config, is_mirror_extended, cpu_cache, hg_idx, in_lqs, lqs, guides,
                   is_cuda, extra_inputs, extra_feats, feats_keys, flows_forward,
                   flows_backward, module, flows, feat_prop, step, ups, stage1, stage2,
                   side, result>>

\* hg_forward lines 430-459: one batched extraction over all t frames
SpatialBatched ==
    /\ pc = "spatial_batched"
    /\ IF ~BatchedSpatialOK(variant, hg_idx, lqs, guides, extra_inputs)
       THEN /\ Fail("RuntimeError", IF hg_idx = 1 THEN 432 ELSE 445)
            /\ UNCHANGED <<feats, feats_keys>>
       ELSE /\ feats' = [feats EXCEPT !["spatial"] =
                            [k \in 1 .. Len(lqs.frames) |->
                                SpatialOf(hg_idx, lqs, guides, extra_inputs, extra_feats, k - 1)]]
            /\ feats_keys' = <<"spatial">>
            /\ pc' = "compute_flow"
            /\ UNCHANGED err
    /\ UNCHANGED <<aux, Config, is_mirror_extended, cpu_cache, hg_idx, in_lqs, lqs, guides,
                   is_cuda, extra_inputs, extra_feats, flows_forward, flows_backward,
                   module, flows, i, feat_prop, step, ups, stage1, stage2, side, result>>

\* hg_forward line 462: the call of compute_flow, up to its return or exception
ComputeFlow ==
    /\ pc = "compute_flow"
    /\ LET r == compute_flow(guides.frames, hg_idx, cpu_cache, is_mirror_extended)
       IN  IF r.err # NoErr
           THEN /\ Fail(r.err.kind, r.err.line)
                /\ UNCHANGED <<flows_forward, flows_backward>>
           ELSE /\ flows_forward' = r.fwd
                /\ flows_backward' = r.bwd
                /\ pc' = "interpolate"
                /\ UNCHANGED err
    /\ UNCHANGED <<aux, Config, is_mirror_extended, cpu_cache, hg_idx, in_lqs, lqs, guides,
                   is_cuda, extra_inputs, extra_feats, feats_keys, feats, module, flows,
                   i, feat_prop, step, ups, stage1, stage2, side, result>>

\* hg_forward lines 464-479: flows_forward.view(...) and flows_backward.view(...)
ResizeFlows ==
    /\ pc = "interpolate"
    /\ IF flows_forward.none
       THEN /\ Fail("AttributeError", 466)
            /\ UNCHANGED <<flows_forward, flows_backward, module>>
       ELSE IF ~FlowViewOK(Len(flows_forward.val), Len(lqs.frames))
       THEN /\ Fail("RuntimeError", 469)
            /\ UNCHANGED <<flows_forward, flows_backward, module>>
       ELSE IF ~FlowViewOK(Len(flows_backward.val), Len(lqs.frames))
       THEN /\ Fail("RuntimeError", 477)
            /\ UNCHANGED <<flows_forward, flows_backward, module>>
       ELSE /\ flows_forward' = InterpolateFlows(flows_forward)
            /\ flows_backward' = InterpolateFlows(flows_backward)
            /\ module' = 1
            /\ pc' = "select_flows"
            /\ UNCHANGED err
    /\ UNCHANGED <<aux, Config, is_mirror_extended, cpu_cache, hg_idx, in_lqs, lqs, guides,
                   is_cuda, extra_inputs, extra_feats, feats_keys, feats, flows, i,
                   feat_prop, step, ups, stage1, stage2, side, result>>

\* hg_forward lines 484-495 and propagate lines 253-264: the branch list is
\* created, the flow tensor chosen, the accumulator zeroed
BeginPass ==
    /\ pc = "select_flows"
    /\ feats' = [feats EXCEPT ![Modules[module]] = <<>>]
    /\ feats_keys' = Append(feats_keys, Modules[module])
    /\ flows' = SelectFlows(Modules[module], flows_forward, flows_backward)
    /\ feat_prop' = ZeroFeat
    /\ i' = 0
    /\ step' = NoStep
    /\ pc' = "propagate"
    /\ UNCHANGED <<aux, Config, is_mirror_extended, cpu_cache, err, hg_idx, in_lqs, lqs,
                   guides, is_cuda, extra_inputs, extra_feats, flows_forward,
                   flows_backward, module, ups, stage1, stage2, side, result>>

\* propagate lines 265-318: one iteration of the loop; the last one also runs
\* lines 320-323 and hands control back to the branch loop of hg_forward
PropagateStep ==
    /\ pc = "propagate"
    /\ LET m == Modules[module]
           t == Len(flows)
       IN  IF ~PropagateIndexOK(feats, feats_keys, flows, m, i)
           THEN /\ Fail("IndexError", 266)
                /\ UNCHANGED <<feats, i, feat_prop, step, module>>
           ELSE LET out == PropagateIter(feats, feats_keys, flows, m, hg_idx, i, feat_prop)
                    grown == AppendOutput(feats[m], out)
                    last == i = t
                IN  /\ feat_prop' = out
                    /\ step' = [i |-> i, idx |-> out.fr,
                                reads |-> OtherReads(feats, feats_keys, flows, m, i),
                                flow_reads |-> FlowReads(flows, m, i),
                                out |-> out]
                    /\ feats' = [feats EXCEPT ![m] = IF last THEN FinishBranch(m, grown) ELSE grown]
                    /\ i' = IF last THEN 0 ELSE i + 1
                    /\ module' = IF last /\ module < 4 THEN module + 1 ELSE module
                    /\ pc' = IF ~last THEN "propagate"
                             ELSE IF module < 4 THEN "select_flows" ELSE "upsample"
                    /\ UNCHANGED err
    /\ UNCHANGED <<aux, Config, is_mirror_extended, cpu_cache, hg_idx, in_lqs, lqs, guides,
                   is_cuda, extra_inputs, extra_feats, feats_keys, flows_forward,
                   flows_backward, flows, ups, stage1, stage2, side, result>>

\* upsample lines 344-365: one frame; the last one also returns (367-371) and
\* hg_forward returns to forward (499-503)
UpsampleStep ==
    /\ pc = "upsample"
    /\ IF ~UpsampleIndexOK(feats, feats_keys, i)
       THEN /\ Fail("IndexError", 345)
            /\ UNCHANGED <<feats, i, ups, stage1, stage2>>
       ELSE LET fused == Reconstruction(hg_idx, UpsampleInput(feats, feats_keys, i))
                grown == [depths |-> Append(ups.depths, PredDepth(hg_idx, fused, PyAt(lqs.frames, i))),
                          confs |-> Append(ups.confs, PredConf(hg_idx, fused)),
                          feats_fused |-> Append(ups.feats_fused, fused)]
                last == i + 1 >= Len(lqs.frames)
                ret == [returned |-> TRUE,
                        depth |-> grown.depths,
                        conf |-> grown.confs,
                        feats |-> IF hg_idx = 1 THEN Some(grown.feats_fused) ELSE None,
                        c |-> BroadcastC(1, LqChannels(variant, lqs.c)),
                        conf_c |-> 1,
                        h |-> UpsampleSize(lqs.h),
                        w |-> UpsampleSize(lqs.w)]
            IN  /\ feats' = PopHeads(feats, feats_keys)
                /\ ups' = grown
                /\ i' = IF last THEN 0 ELSE i + 1
                /\ stage1' = IF last /\ hg_idx = 1 THEN ret ELSE stage1
                /\ stage2' = IF last /\ hg_idx = 2 THEN ret ELSE stage2
                /\ pc' = IF ~last THEN "upsample"
                         ELSE IF hg_idx = 1 THEN "stage1_returned" ELSE "stage2_returned"
                /\ UNCHANGED err
    /\ UNCHANGED <<aux, Config, is_mirror_extended, cpu_cache, hg_idx, in_lqs, lqs, guides,
                   is_cuda, extra_inputs, extra_feats, feats_keys, flows_forward,
                   flows_backward, module, flows, feat_prop, step, side, result>>

\* ---------------------------------------------------------- HistogramErrorModel
\* bin counts inside get_inp_error (hvsr.py 79-93)
DeltaBins(rebin_c) == IF rebin_c > 1 THEN rebin_c - 1 ELSE 0
InputCdfBins(cdf_c) == IF cdf_c > 1 THEN cdf_c - 1 ELSE 0
\* M of dtof_hist_torch when handed rebin_idx[:, :-1]
PredCdfBins(rebin_c) == IF rebin_c > 1 THEN rebin_c - 1 ELSE 0
\* two sizes of one axis that an elementwise operator accepts
Broadcastable(a, b) == a = b \/ a = 1 \/ b = 1
BroadcastSize(a, b) == IF a = 1 THEN b ELSE a
\* line 92: (cdf_inp[:, 1:] - cdf_pred) * delta_idx
ErrorBinsOK(cdf_c, rebin_c) ==
    /\ Broadcastable(InputCdfBins(cdf_c), PredCdfBins(rebin_c))
    /\ Broadcastable(BroadcastSize(InputCdfBins(cdf_c), PredCdfBins(rebin_c)), DeltaBins(rebin_c))

InpError(pred, guide) == [op |-> "get_inp_error", pred |-> pred, img |-> guide]
PosEncoding(h, w, pitch) == [op |-> "get_pos_encoding", h |-> h, w |-> w, pitch |-> pitch]

\* ------------------------------------------------------------ StageOrchestrator
\* HVSR.forward lines 688-707: the error map and the positional encoding
SideChannel ==
    /\ pc = "stage1_returned"
    /\ variant = "HVSR"
    /\ LET t == Len(lqs.frames)
           viewOK == t * stage1.c * stage1.h * stage1.w
                       = t * stage1.c * (in_lqs.h * scale) * (in_lqs.w * scale)
       IN  IF ~viewOK
           THEN /\ Fail("RuntimeError", 695)
                /\ UNCHANGED side
           ELSE IF ~ErrorBinsOK(side.cdf_c, side.rebin_c)
           THEN /\ Fail("RuntimeError", 92)
                /\ UNCHANGED side
           ELSE /\ side' = [side EXCEPT
                              !.ready = TRUE,
                              !.inp_error = [k \in 1 .. t |-> InpError(stage1.depth[k], guides.frames[k])],
                              !.pos_encoding = [k \in 1 .. t |->
                                  PosEncoding(in_lqs.h * scale, in_lqs.w * scale, scale)]]
                /\ pc' = "side_ready"
                /\ UNCHANGED err
    /\ UNCHANGED <<aux, Config, is_mirror_extended, cpu_cache, hg_idx, in_lqs, lqs, guides,
                   is_cuda, extra_inputs, extra_feats, StageLocals, stage1, stage2, result>>

\* the side channel with confidence ahead of depth
SideInputsConfFirst(v, s1, sd) ==
    LET base == <<[name |-> "rgb_conf", ch |-> s1.conf_c, val |-> s1.conf],
                  [name |-> "rgb_depth", ch |-> s1.c, val |-> s1.depth]>>
    IN  IF v = "DVSR" THEN base
        ELSE base \o <<[name |-> "pos_encoding", ch |-> 6, val |-> sd.pos_encoding],
                       [name |-> "inp_error", ch |-> 1, val |-> sd.inp_error]>>

\* the tensor torch.cat(..., dim=2) hands to stage 2 as extra_inputs
SideInputs(v, s1, sd) ==
    LET base == <<[name |-> "rgb_depth", ch |-> s1.c, val |-> s1.depth],
                  [name |-> "rgb_conf", ch |-> s1.conf_c, val |-> s1.conf]>>
    IN  IF v = "DVSR" THEN base
        ELSE base \o <<[name |-> "pos_encoding", ch |-> 6, val |-> sd.pos_encoding],
                       [name |-> "inp_error", ch |-> 1, val |-> sd.inp_error]>>

\* forward: the second hg_forward call (dvsr.py 518-520, hvsr.py 709-715)
Stage2Call ==
    /\ \/ pc = "stage1_returned" /\ variant = "DVSR"
       \/ pc = "side_ready" /\ variant = "HVSR"
    /\ extra_inputs' = [parts |-> SideInputs(variant, stage1, side),
                        h |-> stage1.h, w |-> stage1.w]
    /\ extra_feats' = stage1.feats.val
    /\ hg_idx' = 2
    /\ pc' = "hg_forward"
    /\ feats_keys' = <<>>
    /\ feats' = EmptyFeats
    /\ flows_forward' = None
    /\ flows_backward' = None
    /\ module' = 0
    /\ flows' = <<>>
    /\ i' = 0
    /\ feat_prop' = ZeroFeat
    /\ step' = NoStep
    /\ ups' = NoUps
    /\ UNCHANGED <<aux, Config, is_mirror_extended, cpu_cache, err, in_lqs, lqs, guides,
                   is_cuda, stage1, stage2, side, result>>

\* the confidence of the stage itself, no softmax taken
RawWeight(take, a, b) == IF take = 1 THEN a ELSE b

\* one of the two outputs of chunk(softmax(cat((rgb_conf, d_conf), dim=2)), 2, dim=2)
SoftmaxWeight(take, a, b) == [op |-> "softmax", take |-> take, a |-> a, b |-> b]
BlendDepth(d, dw, r, rw) == [op |-> "blend", d_depth |-> d, d_conf |-> dw,
                             rgb_depth |-> r, rgb_conf |-> rw]

\* forward: the softmax blend and the return (dvsr.py 522-543, hvsr.py 717-742)
Blend ==
    /\ pc = "stage2_returned"
    /\ LET t == Len(stage1.conf)
           w1 == [k \in 1 .. t |-> SoftmaxWeight(1, stage1.conf[k], stage2.conf[k])]
           w2 == [k \in 1 .. t |-> SoftmaxWeight(2, stage1.conf[k], stage2.conf[k])]
       IN  result' = [returned |-> TRUE,
                      depth_final |-> [k \in 1 .. t |->
                          BlendDepth(stage2.depth[k], w2[k], stage1.depth[k], w1[k])],
                      d_depth |-> stage2.depth,
                      rgb_depth |-> stage1.depth,
                      d_conf |-> w2,
                      rgb_conf |-> w1,
                      c |-> BroadcastSize(stage2.c, stage1.c),
                      h |-> stage2.h,
                      w |-> stage2.w]
    /\ pc' = "done"
    /\ UNCHANGED <<aux, Config, is_mirror_extended, cpu_cache, err, hg_idx, in_lqs, lqs,
                   guides, is_cuda, extra_inputs, extra_feats, StageLocals, stage1,
                   stage2, side>>

\* the call has returned or raised: its frame is dropped, the instance remains
Return ==
    /\ pc \in {"done", "error"}
    /\ pc' = "idle"
    /\ err' = NoErr
    /\ hg_idx' = 0
    /\ in_lqs' = NoTensor
    /\ lqs' = NoTensor
    /\ guides' = NoTensor
    /\ is_cuda' = FALSE
    /\ extra_inputs' = NoExtra
    /\ extra_feats' = <<>>
    /\ feats_keys' = <<>>
    /\ feats' = EmptyFeats
    /\ flows_forward' = None
    /\ flows_backward' = None
    /\ module' = 0
    /\ flows' = <<>>
    /\ i' = 0
    /\ feat_prop' = ZeroFeat
    /\ step' = NoStep
    /\ ups' = NoUps
    /\ stage1' = NoStage
    /\ stage2' = NoStage
    /\ side' = NoSide
    /\ result' = NoResult
    /\ UNCHANGED <<aux, Config, is_mirror_extended, cpu_cache>>

Next ==
    \/ Forward
    \/ Return
    \/ HgForwardEnter
    \/ SpatialSequential
    \/ SpatialBatched
    \/ ComputeFlow
    \/ ResizeFlows
    \/ BeginPass
    \/ PropagateStep
    \/ UpsampleStep
    \/ SideChannel
    \/ Stage2Call
    \/ Blend

Spec == Init /\ [][Next]_vars

\* ================================================= helper functions on their own
\* The specifications below evaluate one function of the two modules on inputs
\* drawn from small sets.  The instance is constructed and no forward call is in
\* flight; aux holds the function's arguments, locals and result.

\* the instance the helper functions are evaluated beside
HelperConfigs ==
    {[variant |-> "DVSR", scale |-> 4, len |-> MaxCacheLength, mpeaks |-> 0],
     [variant |-> "HVSR", scale |-> 4, len |-> MaxCacheLength, mpeaks |-> 1]}

\* ------------------------------------------------------------- init_weights
\* values handed to init_weights as pretrained, by Python type
PretrainedArgs ==
    {[type |-> "NoneType", val |-> "None"]}
    \cup {[type |-> "str", val |-> q] : q \in {"a.pth", "b.pth", "c.pth"}}
    \cup {[type |-> "PosixPath", val |-> q] : q \in {"a.pth", "b.pth", "c.pth"}}
    \cup {[type |-> "int", val |-> "0"], [type |-> "bool", val |-> "False"],
          [type |-> "bool", val |-> "True"], [type |-> "list", val |-> "[]"],
          [type |-> "bytes", val |-> "a.pth"], [type |-> "dict", val |-> "{}"]}
\* the weights of a freshly constructed instance
Untrained == [from |-> "constructor", strict |-> TRUE]
NoLoad == [path |-> "", strict |-> TRUE, made |-> FALSE]

\* init_weights with "elif pretrained is not None" replaced by "else"
init_weights_else_raises(w, pretrained, strict, loads) ==
    IF pretrained.type = "str"
    THEN [weights |-> IF loads THEN [from |-> pretrained.val, strict |-> strict] ELSE w,
          load |-> [path |-> pretrained.val, strict |-> strict, made |-> TRUE],
          raised |-> IF loads THEN "" ELSE "IOError"]
    ELSE [weights |-> w, load |-> NoLoad, raised |-> "TypeError"]

\* init_weights(pretrained, strict) on an instance holding the weights w:
\* isinstance(pretrained, str), else pretrained is not None, else nothing.
\* load_checkpoint is mmcv's: it either loads the file (loads) or raises an
\* error of its own, leaving w
init_weights(w, pretrained, strict, loads) ==
    IF pretrained.type = "str"
    THEN [weights |-> IF loads THEN [from |-> pretrained.val, strict |-> strict] ELSE w,
          load |-> [path |-> pretrained.val, strict |-> strict, made |-> TRUE],
          raised |-> IF loads THEN "" ELSE "IOError"]
    ELSE IF pretrained.type # "NoneType"
    THEN [weights |-> w, load |-> NoLoad, raised |-> "TypeError"]
    ELSE [weights |-> w, load |-> NoLoad, raised |-> ""]

InitWeightsStart ==
    /\ \E c \in HelperConfigs : Construct(c)
    /\ aux = [fn |-> "init_weights", called |-> FALSE, weights |-> Untrained,
              pretrained |-> [type |-> "NoneType", val |-> "None"], strict |-> TRUE, load |-> NoLoad, raised |-> ""]

\* one call of init_weights, from the constructor's caller or any later one
InitWeights ==
    /\ aux.fn = "init_weights"
    /\ \E a \in PretrainedArgs, strict \in BOOLEAN, loads \in BOOLEAN :
        LET r == init_weights(aux.weights, a, strict, loads)
        IN  aux' = [fn |-> "init_weights", called |-> TRUE, weights |-> r.weights,
                    pretrained |-> a, strict |-> strict, load |-> r.load,
                    raised |-> r.raised]
    /\ UNCHANGED net

SpecWeights == InitWeightsStart /\ [][InitWeights]_vars

\* ------------------------------------------------------------ softmax blend
\* The end of forward on numbers: a sequence of BlendFrames one-pixel frames,
\* confidences and depths of both stages per frame.  Reals are exact fractions
\* [num, den]; e^d for d <= 0 is a fixed-point table that underflows to 0.
MaxConf == 4
BlendFrames == 1 .. 2
ExpTable == <<1000, 368, 135, 50, 18, 7, 2>>
ExpFixed(d) == IF -d < Len(ExpTable) THEN ExpTable[1 - d] ELSE 0
Max2(a, b) == IF a >= b THEN a ELSE b
Min2(a, b) == IF a <= b THEN a ELSE b

Abs(a) == IF a < 0 THEN -a ELSE a
RECURSIVE Gcd(_, _)
Gcd(a, b) == IF b = 0 THEN a ELSE Gcd(b, a % b)
\* the fraction a/b in lowest terms (0/0 stays as it is)
Frac(a, b) ==
    LET g == Gcd(Abs(a), Abs(b))
    IN  IF g = 0 THEN [num |-> a, den |-> b] ELSE [num |-> a \div g, den |-> b \div g]
FracAdd(p, q) == Frac(p.num * q.den + q.num * p.den, p.den * q.den)
FracMul(p, q) == Frac(p.num * q.num, p.den * q.den)
\* comparisons of fractions with positive denominators
FracEq(p, q) == p.num * q.den = q.num * p.den
FracLe(p, q) == p.num * q.den <= q.num * p.den

\* torch.cat((rgb_conf, d_conf), dim=2): channel 1 is stage 1, channel 2 stage 2
CatConf(rgb_conf, d_conf) == [k \in BlendFrames |-> <<rgb_conf[k], d_conf[k]>>]

\* the softmax taken along the frame axis (dim=1) instead of the channel axis
softmax_over_frames(x) ==
    [k \in BlendFrames |->
        [c \in 1 .. 2 |->
            LET m == Max2(x[1][c], x[2][c])
            IN  Frac(ExpFixed(x[k][c] - m),
                     ExpFixed(x[1][c] - m) + ExpFixed(x[2][c] - m))]]

\* nn.Softmax(dim=2) on the concatenated confidences: per frame and pixel,
\* across the two channels, shifted by the maximum
softmax(x) ==
    [k \in BlendFrames |->
        [c \in 1 .. 2 |->
            LET m == Max2(x[k][1], x[k][2])
            IN  Frac(ExpFixed(x[k][c] - m),
                     ExpFixed(x[k][1] - m) + ExpFixed(x[k][2] - m))]]

\* depth_final = d_depth * d_conf + rgb_depth * rgb_conf
depth_final(d_depth, d_conf, rgb_depth, rgb_conf) ==
    [k \in BlendFrames |->
        FracAdd(FracMul(Frac(d_depth[k], 1), d_conf[k]),
                FracMul(Frac(rgb_depth[k], 1), rgb_conf[k]))]

BlendStart ==
    /\ \E c \in HelperConfigs : Construct(c)
    /\ \E c1 \in [BlendFrames -> {-MaxConf, 0, 1, MaxConf}],
          c2 \in [BlendFrames -> {-MaxConf, 0, 1, MaxConf}],
          d1 \in [BlendFrames -> {-1, 0, 2}], d2 \in [BlendFrames -> {-1, 0, 2}] :
        aux = [fn |-> "blend", at |-> "stages", conf1 |-> c1, conf2 |-> c2,
               rgb_depth |-> d1, d_depth |-> d2]

\* rgb_conf, d_conf = torch.chunk(self.softmax(torch.cat(...)), 2, dim=2)
SoftmaxStep ==
    /\ aux.fn = "blend"
    /\ aux.at = "stages"
    /\ LET sm == softmax(CatConf(aux.conf1, aux.conf2))
       IN  aux' = [fn |-> "blend", at |-> "weights", conf1 |-> aux.conf1,
                   conf2 |-> aux.conf2, rgb_depth |-> aux.rgb_depth,
                   d_depth |-> aux.d_depth,
                   rgb_conf |-> [k \in BlendFrames |-> sm[k][1]],
                   d_conf |-> [k \in BlendFrames |-> sm[k][2]]]
    /\ UNCHANGED net

DepthFinalStep ==
    /\ aux.fn = "blend"
    /\ aux.at = "weights"
    /\ aux' = [fn |-> "blend", at |-> "final", conf1 |-> aux.conf1,
               conf2 |-> aux.conf2, rgb_depth |-> aux.rgb_depth,
               d_depth |-> aux.d_depth, rgb_conf |-> aux.rgb_conf,
               d_conf |-> aux.d_conf,
               depth_final |-> depth_final(aux.d_depth, aux.d_conf,
                                           aux.rgb_depth, aux.rgb_conf)]
    /\ UNCHANGED net

NextBlend == SoftmaxStep \/ DepthFinalStep

SpecBlend == BlendStart /\ [][NextBlend]_vars

\* --------------------------------------------------------- get_pos_encoding
\* get_pos_encoding(B, T, H, W, pitch) on numbers.  Rows and columns count from
\* 0 as in torch.arange; the result maps <<b, t, y, x>> to its channels.
MaxPosSize == 4
MaxPitch == 3

\* -MaxPool2d(kernel_size=pitch, stride=pitch)(-y): the smallest coordinate of
\* the window that starts at patch index q
RECURSIVE PoolMin(_, _, _)
PoolMin(q, pitch, k) ==
    IF k = 0 THEN q * pitch
    ELSE Min2(q * pitch + k, PoolMin(q, pitch, k - 1))

\* repeat_interleave(patch, pitch): the pooled value of the patch holding y
PatchCoord(y, pitch) == PoolMin(y \div pitch, pitch, pitch - 1)

\* the pooled grid has H div pitch rows; repeated pitch times it must have H
PoolShapeOK(size, pitch) == (size \div pitch) * pitch = size

\* the six channels at pixel (y, x): abs_pos, rel_pos, patch_pos
PosChannels(y, x, H, W, pitch) ==
    LET patch_y == PatchCoord(y, pitch)
        patch_x == PatchCoord(x, pitch)
        rel_y == y - patch_y
        rel_x == x - patch_x
    IN  <<Frac(y, H), Frac(x, W),
          Frac(rel_y, pitch), Frac(rel_x, pitch),
          Frac(patch_y, H), Frac(patch_x, W)>>

get_pos_encoding(B, T, H, W, pitch) ==
    IF ~PoolShapeOK(H, pitch) \/ ~PoolShapeOK(W, pitch)
    THEN [raised |-> "RuntimeError", pos_encoding |-> <<>>]
    ELSE [raised |-> "",
          pos_encoding |->
              [ix \in (1 .. B) \X (1 .. T) \X (0 .. H - 1) \X (0 .. W - 1) |->
                  PosChannels(ix[3], ix[4], H, W, pitch)]]

PosStart ==
    /\ \E c \in HelperConfigs : Construct(c)
    /\ \E B \in 1 .. 2, T \in 1 .. 2, H \in 1 .. MaxPosSize, W \in 1 .. MaxPosSize,
          pitch \in 1 .. MaxPitch :
        aux = [fn |-> "get_pos_encoding", at |-> "called", B |-> B, T |-> T,
               H |-> H, W |-> W, pitch |-> pitch, raised |-> "",
               pos_encoding |-> <<>>]

GetPosEncoding ==
    /\ aux.fn = "get_pos_encoding"
    /\ aux.at = "called"
    /\ LET r == get_pos_encoding(aux.B, aux.T, aux.H, aux.W, aux.pitch)
       IN  aux' = [aux EXCEPT !.at = "returned", !.raised = r.raised,
                              !.pos_encoding = r.pos_encoding]
    /\ UNCHANGED net

SpecPos == PosStart /\ [][GetPosEncoding]_vars

\* ------------------------------------------- dtof_hist_torch, get_inp_error
\* get_inp_error on numbers, for one frame (B = 1) over a sensor grid of one row
\* of patches.  Reals are fixed-point integers in units of 1e-3, so the code's
\* epsilon is one unit; bin indices are plain integers.  Full-resolution
\* tensors map <<y, x>> (from 0) to a value, sensor-resolution tensors map the
\* patch column (from 0) to a value or to a sequence over the bin axis.
MaxPatches == 2
Unit == 1000
Eps == 1
RebinVals == {<<0, 1, 2, 3>>, <<1, 2, 4, 4>>, <<2, 3, 4, 4>>}
CdfVals == {<<0, 0, 0, 0>>, <<0, 200, 700, 1000>>}
\* a predicted depth and the three guide channels at one pixel
ErrPixels ==
    {[d |-> 1500, img |-> <<300, 600, 0>>],
     [d |-> 500, img |-> <<0, 0, 0>>],
     [d |-> -200, img |-> <<90, 90, 120>>],
     [d |-> 250, img |-> <<-600, -300, 0>>]}

\* x / y and x * y of fixed-point numbers, rounded towards zero so that, as
\* in floating point, (-x) / y = -(x / y)
FxDiv(a, b) ==
    IF (a < 0) = (b < 0) THEN (Abs(a) * Unit) \div Abs(b) ELSE -((Abs(a) * Unit) \div Abs(b))
FxMul(a, b) ==
    IF (a < 0) = (b < 0) THEN (Abs(a) * Abs(b)) \div Unit ELSE -((Abs(a) * Abs(b)) \div Unit)

\* torch.clamp(d, min=0.0, max=1.0)
Clamp01(d) == Max2(0, Min2(Unit, d))
\* torch.round of a fixed-point number: nearest integer, halves to even
Round(q) ==
    LET f == q \div Unit
        rem == q % Unit
    IN  IF 2 * rem < Unit THEN f
        ELSE IF 2 * rem > Unit THEN f + 1
        ELSE IF f % 2 = 0 THEN f ELSE f + 1
\* torch.mean(img, dim=1)
Albedo(px) == (px[1] + px[2] + px[3]) \div 3
\* r = albedo / (1e-3 + d**2)
Intensity(albedo, d) == FxDiv(albedo, Eps + FxMul(d, d))
\* x[:, :-1] and x[:, 1:] along the bin axis
DropLast(q) == SubSeq(q, 1, Len(q) - 1)
DropFirst(q) == SubSeq(q, 2, Len(q))
MaxSeq(q) == CHOOSE m \in {q[k] : k \in 1 .. Len(q)} : \A k \in 1 .. Len(q) : q[k] <= m
RECURSIVE CumSum(_)
CumSum(q) ==
    IF Len(q) = 0 THEN <<>>
    ELSE LET c == CumSum(DropLast(q))
         IN  Append(c, (IF Len(c) = 0 THEN 0 ELSE c[Len(c)]) + q[Len(q)])
\* the pixels of patch column px, in row-major order
PatchPixels(px, pitch) ==
    [n \in 1 .. pitch * pitch |-> <<(n - 1) \div pitch, px * pitch + ((n - 1) % pitch)>>]
\* torch.repeat_interleave(torch.repeat_interleave(x, pitch, dim=2), pitch, dim=3)
RepeatPatches(x, pitch, w) ==
    [ix \in (0 .. pitch - 1) \X (0 .. w * pitch - 1) |-> x[ix[2] \div pitch]]

\* the count of boundaries taken as a 0-based bin number
dtof_hist_zero_based(d, img, rebin_idx, pitch, temp_res, w) ==
    LET r == [ix \in DOMAIN d |-> Intensity(Albedo(img[ix]), Clamp01(d[ix]))]
        up == RepeatPatches(rebin_idx, pitch, w)
    IN  [px \in 0 .. w - 1 |->
            [k \in 1 .. Len(rebin_idx[px]) |->
                SumSeq([n \in 1 .. pitch * pitch |->
                    LET ix == PatchPixels(px, pitch)[n]
                    IN  IF Cardinality({j \in 1 .. Len(up[ix]) :
                               Round(Clamp01(d[ix]) * (temp_res - 1)) >= up[ix][j]}) = k - 1
                        THEN r[ix] ELSE 0])]]

\* dtof_hist_torch(d, img, rebin_idx, pitch, temp_res): per patch, over the
\* bins 1..M, the summed intensity of the pixels whose depth falls in the bin
dtof_hist_torch(d, img, rebin_idx, pitch, temp_res, w) ==
    LET dc == [ix \in DOMAIN d |-> Clamp01(d[ix])]
        r == [ix \in DOMAIN d |-> Intensity(Albedo(img[ix]), dc[ix])]
        rebin_up == RepeatPatches(rebin_idx, pitch, w)
        count == [ix \in DOMAIN d |->
                    Cardinality({j \in 1 .. Len(rebin_up[ix]) :
                                    Round(dc[ix] * (temp_res - 1)) - rebin_up[ix][j] >= 0})]
    IN  [px \in 0 .. w - 1 |->
            [k \in 1 .. Len(rebin_idx[px]) |->
                SumSeq([n \in 1 .. pitch * pitch |->
                    IF count[PatchPixels(px, pitch)[n]] = k
                    THEN r[PatchPixels(px, pitch)[n]] ELSE 0])]]

\* the histogram of one patch divided by its largest bin, as the input CDF is
NormalizeHistByMax(hist) ==
    [k \in 1 .. Len(hist) |-> FxDiv(hist[k], MaxSeq(hist) + Eps)]

\* hist_pred / (torch.sum(hist_pred, dim=1).unsqueeze(1) + 1e-3), for one patch
NormalizeHist(hist) ==
    [k \in 1 .. Len(hist) |-> FxDiv(hist[k], SumSeq(hist) + Eps)]

\* the full-resolution inputs built from two pixels per patch: the depth of
\* a pixel follows its row, its guide colour follows its column
ErrTensor(o1, o2, pitch, w, field) ==
    [ix \in (0 .. pitch - 1) \X (0 .. w * pitch - 1) |->
        LET px == ix[2] \div pitch
        IN  IF field = "d"
            THEN (IF ix[1] = 0 THEN o1[px].d ELSE o2[px].d)
            ELSE (IF ix[2] % pitch = 0 THEN o1[px].img ELSE o2[px].img)]

ErrStart ==
    /\ Construct([variant |-> "HVSR", scale |-> 4, len |-> MaxCacheLength, mpeaks |-> 1])
    /\ \E pitch \in 1 .. 2, w \in 1 .. MaxPatches, rb \in RebinVals :
       \E temp_res \in {IF rb[1] = 0 THEN 5 ELSE 4} :
       \E cdf \in [0 .. w - 1 -> CdfVals], o1 \in [0 .. w - 1 -> ErrPixels],
          o2 \in [0 .. w - 1 -> ErrPixels] :
        aux = [fn |-> "get_inp_error", at |-> "called", pitch |-> pitch, w |-> w,
               temp_res |-> temp_res, cdf |-> cdf,
               rebin_idx |-> [px \in 0 .. w - 1 |-> rb],
               pred |-> ErrTensor(o1, o2, pitch, w, "d"),
               img |-> ErrTensor(o1, o2, pitch, w, "img"),
               delta_idx |-> <<>>, cdf_inp |-> <<>>, hist_pred |-> <<>>,
               cdf_pred |-> <<>>, inp_error |-> <<>>]

\* delta_idx = rebin_idx[:, 1:] - rebin_idx[:, :-1];  cdf_inp = cdf / (max + 1e-3)
NormalizeInput ==
    /\ aux.fn = "get_inp_error"
    /\ aux.at = "called"
    /\ aux' = [aux EXCEPT
            !.at = "normalized",
            !.delta_idx = [px \in 0 .. aux.w - 1 |->
                [k \in 1 .. Len(aux.rebin_idx[px]) - 1 |->
                    DropFirst(aux.rebin_idx[px])[k] - DropLast(aux.rebin_idx[px])[k]]],
            !.cdf_inp = [px \in 0 .. aux.w - 1 |->
                [k \in 1 .. Len(aux.cdf[px]) |->
                    FxDiv(aux.cdf[px][k], MaxSeq(aux.cdf[px]) + Eps)]]]
    /\ UNCHANGED net

\* hist_pred = dtof_hist_torch(pred, img, rebin_idx[:, :-1], pitch, temp_res)
PredictHist ==
    /\ aux.fn = "get_inp_error"
    /\ aux.at = "normalized"
    /\ aux' = [aux EXCEPT
            !.at = "hist",
            !.hist_pred = dtof_hist_torch(aux.pred, aux.img,
                              [px \in 0 .. aux.w - 1 |-> DropLast(aux.rebin_idx[px])],
                              aux.pitch, aux.temp_res, aux.w)]
    /\ UNCHANGED net

\* hist_pred = hist_pred / (sum + 1e-3);  cdf_pred = cumsum(hist_pred)
PredictCdf ==
    /\ aux.fn = "get_inp_error"
    /\ aux.at = "hist"
    /\ aux' = [aux EXCEPT
            !.at = "cdf",
            !.cdf_pred = [px \in 0 .. aux.w - 1 |->
                             CumSum(NormalizeHist(aux.hist_pred[px]))]]
    /\ UNCHANGED net

\* inp_error = mean(abs((cdf_inp[:, 1:] - cdf_pred) * delta_idx), dim=1)
MeanError ==
    /\ aux.fn = "get_inp_error"
    /\ aux.at = "cdf"
    /\ aux' = [aux EXCEPT
            !.at = "error",
            !.inp_error = [px \in 0 .. aux.w - 1 |->
                SumSeq([k \in 1 .. Len(aux.cdf_pred[px]) |->
                    Abs((DropFirst(aux.cdf_inp[px])[k] - aux.cdf_pred[px][k])
                        * aux.delta_idx[px][k])])
                \div Len(aux.cdf_pred[px])]]
    /\ UNCHANGED net

\* the assignment with the comparison taken on the error instead of the CDF
SentinelWhereNoError(inp_error, cdf_inp) ==
    [px \in DOMAIN inp_error |-> IF inp_error[px] = 0 THEN -Unit ELSE inp_error[px]]

\* the assignment with the comparison taken on the smallest bin of the CDF
SentinelWhereMinZero(inp_error, cdf_inp) ==
    [px \in DOMAIN inp_error |->
        IF \E k \in 1 .. Len(cdf_inp[px]) : cdf_inp[px][k] = 0 THEN -Unit ELSE inp_error[px]]

\* inp_error[torch.max(cdf_inp, axis=1)[0].unsqueeze(1) == 0] = -1
Sentinel(inp_error, cdf_inp) ==
    [px \in DOMAIN inp_error |-> IF MaxSeq(cdf_inp[px]) = 0 THEN -Unit ELSE inp_error[px]]

MarkMissing ==
    /\ aux.fn = "get_inp_error"
    /\ aux.at = "error"
    /\ aux' = [aux EXCEPT !.at = "marked",
                          !.inp_error = Sentinel(aux.inp_error, aux.cdf_inp)]
    /\ UNCHANGED net

\* the upsample and the return
UpsampleError ==
    /\ aux.fn = "get_inp_error"
    /\ aux.at = "marked"
    /\ aux' = [aux EXCEPT !.at = "returned",
                          !.inp_error = RepeatPatches(aux.inp_error, aux.pitch, aux.w)]
    /\ UNCHANGED net

NextErr ==
    \/ NormalizeInput
    \/ PredictHist
    \/ PredictCdf
    \/ MeanError
    \/ MarkMissing
    \/ UpsampleError

SpecErr == ErrStart /\ [][NextErr]_vars

\* ------------------------------------------- propagate: second-order inputs
\* The alignment inputs of propagate with flows as numbers: a flow field maps a
\* pixel <<y, x>> (from 0) to a displacement [dx, dy] of exact fractions.
\* Features stay symbolic: the output appended for frame idx by a branch is the
\* tag <<branch, idx>>.
MaxAlignT == 4
AlignH == 2
AlignW == 3
AlignPixels == (0 .. AlignH - 1) \X (0 .. AlignW - 1)
ZeroVec == [dx |-> Frac(0, 1), dy |-> Frac(0, 1)]
VecAdd(u, v) == [dx |-> FracAdd(u.dx, v.dx), dy |-> FracAdd(u.dy, v.dy)]
VecScale(c, v) == [dx |-> FracMul(c, v.dx), dy |-> FracMul(c, v.dy)]
\* the sampling position of pixel p under displacement v lies in the frame
SampleInside(p, v) ==
    LET sy == FracAdd(Frac(p[1], 1), v.dy)
        sx == FracAdd(Frac(p[2], 1), v.dx)
    IN  /\ FracLe(Frac(0, 1), sy) /\ FracLe(sy, Frac(AlignH - 1, 1))
        /\ FracLe(Frac(0, 1), sx) /\ FracLe(sx, Frac(AlignW - 1, 1))

\* flow_warp(x, flow): bilinear resample of the field x at p + flow[p].  What a
\* sample outside the frame reads is the padding: zero, or the nearest edge
flow_warp(x, flow, padding) ==
    [p \in AlignPixels |->
        LET sy == FracAdd(Frac(p[1], 1), flow[p].dy)
            sx == FracAdd(Frac(p[2], 1), flow[p].dx)
            y0 == sy.num \div sy.den
            x0 == sx.num \div sx.den
            fy == FracAdd(sy, Frac(-y0, 1))
            fx == FracAdd(sx, Frac(-x0, 1))
            At(yy, xx) ==
                IF <<yy, xx>> \in AlignPixels THEN x[<<yy, xx>>]
                ELSE IF padding = "zeros" THEN ZeroVec
                ELSE x[<<Max2(0, Min2(AlignH - 1, yy)), Max2(0, Min2(AlignW - 1, xx))>>]
            Wt(a, f) == IF a = 0 THEN FracAdd(Frac(1, 1), Frac(-f.num, f.den)) ELSE f
            Term(a, b) == VecScale(FracMul(Wt(a, fy), Wt(b, fx)), At(y0 + a, x0 + b))
        IN  VecAdd(VecAdd(Term(0, 0), Term(0, 1)), VecAdd(Term(1, 0), Term(1, 1)))]

\* the composition without its first-order term
ComposeFlowWarpOnly(flow_n1, flow_n2, padding) ==
    flow_warp(flow_n2, flow_n1, padding)

\* flow_n2 = flow_n1 + flow_warp(flow_n2, flow_n1.permute(0, 2, 3, 1))
ComposeFlow(flow_n1, flow_n2, padding) ==
    [p \in AlignPixels |-> VecAdd(flow_n1[p], flow_warp(flow_n2, flow_n1, padding)[p])]

\* the locals of iteration ii > 0 before the deformable alignment is called
AlignInputs(own, fl, m, ii, padding) ==
    LET fi == FlowIdx(m, Len(fl))
        flow_n1 == PyAt(fl, PyAt(fi, ii))
        feat_n2 == IF ii > 1 THEN PyAt(own, -2) ELSE ZeroTag
        flow_n2 == IF ii > 1
                   THEN ComposeFlow(flow_n1, PyAt(fl, PyAt(fi, ii - 1)), padding)
                   ELSE [p \in AlignPixels |-> ZeroVec]
    IN  [feat_n2 |-> feat_n2, flow_n1 |-> flow_n1, flow_n2 |-> flow_n2,
         cond_n2 |-> IF ii > 1 THEN [op |-> "flow_warp", x |-> feat_n2, flow |-> flow_n2]
                     ELSE [op |-> "zeros", x |-> ZeroTag,
                           flow |-> [p \in AlignPixels |-> ZeroVec]]]

AlignStart ==
    /\ Construct([variant |-> "DVSR", scale |-> 4, len |-> MaxCacheLength, mpeaks |-> 0])
    /\ \E t \in 2 .. MaxAlignT, m \in {"backward_1", "forward_1"},
          padding \in {"zeros", "border"} :
       \E vs \in [1 .. t - 1 ->
                    {[dx |-> Frac(a, 2), dy |-> Frac(b, 1)] : a \in {-2, 0, 1}, b \in {0, 1}}] :
        aux = [fn |-> "propagate", module |-> m, padding |-> padding, t |-> t,
               flows |-> [k \in 1 .. t - 1 |-> [p \in AlignPixels |-> vs[k]]],
               i |-> 0, own |-> <<>>, feat_prop |-> ZeroTag,
               feat_n2 |-> ZeroTag, flow_n1 |-> <<>>, flow_n2 |-> <<>>, cond_n2 |-> <<>>]

\* one iteration of the loop over frame_idx
AlignStep ==
    /\ aux.fn = "propagate"
    /\ aux.i < Len(FrameIdx(aux.module, Len(aux.flows)))
    /\ LET idx == PyAt(FrameIdx(aux.module, Len(aux.flows)), aux.i)
           a == AlignInputs(aux.own, aux.flows, aux.module, aux.i, aux.padding)
       IN  aux' = [aux EXCEPT
                !.i = aux.i + 1,
                !.own = Append(aux.own, <<aux.module, idx>>),
                !.feat_prop = <<aux.module, idx>>,
                !.feat_n2 = IF NeedsAlignment(aux.i) THEN a.feat_n2 ELSE ZeroTag,
                !.flow_n1 = IF NeedsAlignment(aux.i) THEN a.flow_n1 ELSE <<>>,
                !.flow_n2 = IF NeedsAlignment(aux.i) THEN a.flow_n2 ELSE <<>>,
                !.cond_n2 = IF NeedsAlignment(aux.i) THEN a.cond_n2 ELSE <<>>]
    /\ UNCHANGED net

SpecAlign == AlignStart /\ [][AlignStep]_vars

\* ------------------------------------------- hg_forward under CPU offload
\* Where the stage-level arrays of one stage-forward call live when
\* self.cpu_cache is set: dev and host count the flow fields, spatial
\* features, branch outputs and fused features held on the compute device and
\* in host memory after each statement.  A tensor counts for as long as a
\* list, a dict or a local of the running function refers to it; the call is
\* on a sequence that is not mirror extended (a mirror-extended one fails at
\* line 234).
NoArrays == [flows |-> 0, spatial |-> 0, branch |-> 0, fused |-> 0]
Flag(b) == IF b THEN 1 ELSE 0

\* hg_forward lines 390-403 on a CUDA input longer than cpu_cache_length
OffloadStart ==
    /\ \E c \in HelperConfigs : Construct(c)
    /\ \E t \in 2 .. MaxCacheLength + 3, hg \in 1 .. 2 :
        /\ CpuCacheFlag(t, TRUE, cpu_cache_length)
        /\ aux = [fn |-> "hg_forward", hg_idx |-> hg, t |-> t, at |-> "spatial",
                  k |-> 0, module |-> 0, dev |-> NoArrays, host |-> NoArrays]

\* lines 405-428: the feature of frame k is computed on the device, then
\* .cpu() puts it in the list and the device copy is dropped
SpatialFrame ==
    /\ aux.fn = "hg_forward"
    /\ aux.at = "spatial"
    /\ aux' = IF aux.dev.spatial = 0
              THEN [aux EXCEPT !.dev.spatial = 1]
              ELSE [aux EXCEPT !.dev.spatial = 0,
                               !.host.spatial = @ + 1,
                               !.k = IF aux.k + 1 < aux.t THEN aux.k + 1 ELSE 0,
                               !.at = IF aux.k + 1 < aux.t THEN "spatial" ELSE "flows_backward"]
    /\ UNCHANGED net

\* compute_flow lines 202-204 and 220-222: the flow of pair tt is computed and
\* appended to the list, on the device
FlowPair ==
    /\ aux.fn = "hg_forward"
    /\ aux.at \in {"flows_backward", "flows_forward"}
    /\ aux.k < aux.t - 1
    /\ aux' = [aux EXCEPT !.dev.flows = @ + 1, !.k = @ + 1]
    /\ UNCHANGED net

\* lines 205 and 223: torch.cat of the list; the list is dropped, the fields
\* live on in the concatenated tensor on the device
FlowCat ==
    /\ aux.fn = "hg_forward"
    /\ aux.at \in {"flows_backward", "flows_forward"}
    /\ aux.k = aux.t - 1
    /\ aux' = [aux EXCEPT !.k = 0,
                          !.at = IF aux.at = "flows_backward" THEN "flows_forward"
                                 ELSE "flows_cpu"]
    /\ UNCHANGED net

\* lines 232-236: both tensors are moved with .cpu() and returned; hg_forward
\* lines 464-479 resize them, in host memory
FlowsToHost ==
    /\ aux.fn = "hg_forward"
    /\ aux.at = "flows_cpu"
    /\ aux' = [aux EXCEPT !.host.flows = aux.dev.flows,
                          !.dev.flows = 0,
                          !.at = "load",
                          !.module = 1]
    /\ UNCHANGED net

\* propagate lines 265-310 at step k: feat_current, feat_prop, flow_n1,
\* feat_n2, flow_n2 and the earlier branches' outputs are copied to the device
PropagateLoad ==
    /\ aux.fn = "hg_forward"
    /\ aux.at = "load"
    /\ aux' = [aux EXCEPT !.dev.spatial = 1,
                          !.dev.flows = Flag(aux.k > 0) + Flag(aux.k > 1),
                          !.dev.branch = 1 + Flag(aux.k > 1) + (aux.module - 1),
                          !.at = "append"]
    /\ UNCHANGED net

\* lines 312-313: the copies are concatenated, the new feat_prop replaces the
\* old one and is appended, still on the device
PropagateAppend ==
    /\ aux.fn = "hg_forward"
    /\ aux.at = "append"
    /\ aux' = [aux EXCEPT !.dev.branch = 1 + Flag(aux.k > 1), !.at = "cpu"]
    /\ UNCHANGED net

\* lines 315-323: the appended output is replaced by its host copy, feat_prop
\* keeps the device tensor for the next step; after the last step propagate
\* returns and hg_forward (lines 494-497) drops flows
PropagateToHost ==
    /\ aux.fn = "hg_forward"
    /\ aux.at = "cpu"
    /\ LET last == aux.k + 1 >= aux.t
       IN  aux' = [aux EXCEPT
                !.host.branch = @ + 1,
                !.dev = IF last THEN [NoArrays EXCEPT !.fused = aux.dev.fused] ELSE @,
                !.k = IF last THEN 0 ELSE aux.k + 1,
                !.module = IF last /\ aux.module < 4 THEN aux.module + 1 ELSE aux.module,
                !.at = IF last /\ aux.module = 4 THEN "upsample" ELSE "load"]
    /\ UNCHANGED net

\* upsample lines 345-349: the heads of the four lists and the spatial feature
\* are concatenated and copied to the device; lines 351-365: the copy is
\* replaced by the fused feature, whose clone stays on the device, and depth
\* and confidence go to the host
UpsampleFrame ==
    /\ aux.fn = "hg_forward"
    /\ aux.at = "upsample"
    /\ aux' = IF aux.dev.spatial = 0
              THEN [aux EXCEPT !.dev.spatial = 1, !.dev.branch = 4,
                               !.host.branch = @ - 4]
              ELSE [aux EXCEPT !.dev.spatial = 0, !.dev.branch = 0,
                               !.dev.fused = @ + 1,
                               !.k = aux.k + 1,
                               !.at = IF aux.k + 1 < aux.t THEN "upsample" ELSE "returned"]
    /\ UNCHANGED net

NextOffload ==
    \/ SpatialFrame
    \/ FlowPair
    \/ FlowCat
    \/ FlowsToHost
    \/ PropagateLoad
    \/ PropagateAppend
    \/ PropagateToHost
    \/ UpsampleFrame

SpecOffload == OffloadStart /\ [][NextOffload]_vars

\* ===================================================================== claims
T == Len(lqs.frames)
\* the call is inside a stage-forward, past the flag assignments of lines 390-399
InStage == pc \in {"spatial_seq", "spatial_batched", "compute_flow", "interpolate",
                   "select_flows", "propagate", "upsample"}
\* frame i equals frame T-1-i for every i in 0..T/2-1, T even
MirrorExtended(l) ==
    /\ Len(l) % 2 = 0
    /\ \A k \in 0 .. (Len(l) \div 2) - 1 : PyAt(l, k) = PyAt(l, Len(l) - 1 - k)
\* the forward flow of the guidance frames: flow(guide[t+1], guide[t]), t in 0..T-2
ForwardFlowOf(hg, g) == [k \in 1 .. Len(g) - 1 |-> SPyNet(hg, g[k + 1], g[k])]
BackwardFlowOf(hg, g) == [k \in 1 .. Len(g) - 1 |-> SPyNet(hg, g[k], g[k + 1])]

\* C1: a stage-forward call on a mirror-extended sequence is not ended by the
\* forward flow being None, neither inside compute_flow (offload) nor between
\* its return and the first propagation pass.
C1_MirrorCallCompletes ==
    (pc = "error" /\ MirrorExtended(lqs.frames)) => err.kind # "AttributeError"

\* C2: inside a stage-forward call the mirror flag is the mirror test of that
\* call's own input sequence, whatever earlier calls on the instance saw.
C2_FlagIsPerCall ==
    InStage => (is_mirror_extended = MirrorExtended(lqs.frames))

\* C3: check_if_mirror_extended, entered with the flag False, leaves it True
\* exactly when T is even and frame i equals frame T-1-i for all i < T/2.
C3_MirrorTestExact ==
    [][(pc = "hg_forward" /\ ~is_mirror_extended)
        => (is_mirror_extended' = MirrorExtended(lqs.frames))]_vars

\* C3 witness: the test has just flagged a four-frame mirror extension whose
\* halves differ from each other.
C3_Witness ==
    /\ pc \in {"spatial_seq", "spatial_batched"}
    /\ hg_idx = 1
    /\ is_mirror_extended
    /\ lqs.frames = <<0, 1, 1, 0>>

\* C4: when the mirror test of the measurement sequence succeeds and
\* compute_flow has skipped the forward flow, the time-reversed backward flow
\* equals the forward flow of the guidance frames, pair for pair.
C4_FlippedBackwardIsForward ==
    (pc = "interpolate" /\ MirrorExtended(lqs.frames) /\ flows_forward.none)
        => Reversed(flows_backward.val) = ForwardFlowOf(hg_idx, guides.frames)

\* index (1..4) of a branch name in the fixed order of passes
BranchNo(m) == CHOOSE b \in 1 .. 4 : Modules[b] = m
HasKey(k) == \E c \in 1 .. Len(feats_keys) : feats_keys[c] = k

\* C5: the passes run in the order backward_1, forward_1, backward_2,
\* forward_2, a pass starts only when every earlier pass holds all T outputs,
\* and each iteration reads from exactly the earlier passes, in that order, the
\* output computed for the frame it is visiting.
C5_PassOrder ==
    /\ pc \in {"select_flows", "propagate"} =>
          \A b \in 1 .. 4 :
              /\ HasKey(Modules[b]) <=> (b < module \/ (b = module /\ pc = "propagate"))
              /\ b < module => Len(feats[Modules[b]]) = T
              /\ b > module => Len(feats[Modules[b]]) = 0
    /\ step.i >= 0 =>
          /\ Len(step.reads) = BranchNo(step.out.br) - 1
          /\ \A c \in 1 .. Len(step.reads) :
                /\ step.reads[c].key = Modules[c]
                /\ step.reads[c].at = step.idx
                /\ step.reads[c].got = <<Modules[c], step.idx>>

\* C5 witness: forward_2 is past its seed step and has read the three earlier
\* branches at an inner frame.
C5_Witness ==
    /\ pc = "propagate"
    /\ module = 4
    /\ step.i >= 1
    /\ step.out.br = "forward_2"
    /\ Len(step.reads) = 3

\* C6: stage 2 runs only on stage 1's complete output (depth, confidence and
\* fused features for all T frames); its side channel is stage 1's depth, then
\* stage 1's raw confidence (in HVSR followed by the positional encoding and the
\* error map, 9 channels); the blend exists only once stage 2 has returned;
\* stage 1 returns fused features and stage 2 returns None in their place.
C6_StageOrder ==
    /\ hg_idx = 2 =>
          /\ stage1.returned
          /\ Len(stage1.depth) = T /\ Len(stage1.conf) = T
          /\ ~stage1.feats.none /\ Len(stage1.feats.val) = T
          /\ extra_feats = stage1.feats.val
          /\ [c \in 1 .. Len(extra_inputs.parts) |-> extra_inputs.parts[c].name]
                = (IF variant = "DVSR" THEN <<"rgb_depth", "rgb_conf">>
                   ELSE <<"rgb_depth", "rgb_conf", "pos_encoding", "inp_error">>)
          /\ extra_inputs.parts[1].val = stage1.depth
          /\ extra_inputs.parts[2].val = stage1.conf
          /\ \A k \in 1 .. T : extra_inputs.parts[2].val[k].op = "conf"
          /\ SideChannels(extra_inputs) = (IF variant = "DVSR" THEN 2 ELSE 9)
    /\ hg_idx = 1 => (~stage2.returned /\ ~result.returned)
    /\ pc \in {"spatial_seq", "spatial_batched", "compute_flow", "interpolate",
               "select_flows", "propagate", "upsample"}
          => (stage1.returned <=> hg_idx = 2)
    /\ stage2.returned => (hg_idx = 2 /\ stage2.feats.none /\ Len(stage2.depth) = T)
    /\ stage1.returned => ~stage1.feats.none
    /\ result.returned => stage2.returned
    /\ (stage2.returned /\ pc # "done") => ~result.returned

\* C6 witness: the HVSR refinement stage is propagating on the 9-channel side
\* channel built from stage 1.
C6_Witness ==
    /\ variant = "HVSR"
    /\ hg_idx = 2
    /\ pc = "propagate"
    /\ Len(extra_inputs.parts) = 4

\* ---- what a stage computes, written from the inputs alone
ExpSpatial(hg) ==
    [k \in 1 .. T |-> SpatialOf(hg, lqs, guides, extra_inputs, extra_feats, k - 1)]
ExpFlows(hg, m) ==
    IF IsBackward(m)
    THEN [k \in 1 .. T - 1 |-> Interpolate(BackwardFlowOf(hg, guides.frames)[k])]
    ELSE [k \in 1 .. T - 1 |-> Interpolate(ForwardFlowOf(hg, guides.frames)[k])]
\* the output of branch m for frame k (0-based)
ExpBranchAt(hg, m, k) ==
    LET back == IsBackward(m)
        n == IF back THEN T - 1 - k ELSE k
        prev1 == IF back THEN k + 1 ELSE k - 1
        prev2 == IF back THEN k + 2 ELSE k - 2
        f == ExpFlows(hg, m)
    IN  [br |-> m, fr |-> k, hg |-> hg,
         cur |-> ExpSpatial(hg)[k + 1],
         acc |-> IF n = 0 THEN ZeroTag ELSE <<m, prev1>>,
         aligned |-> n > 0,
         flow_n1 |-> IF n = 0 THEN ZeroFlow ELSE IF back THEN f[k + 1] ELSE f[k],
         flow_n2 |-> IF n < 2 THEN ZeroFlow ELSE IF back THEN f[k + 2] ELSE f[k - 1],
         n2 |-> IF n < 2 THEN ZeroTag ELSE <<m, prev2>>,
         others |-> [c \in 1 .. BranchNo(m) - 1 |-> <<Modules[c], k>>]]
ExpBranch(hg, m) == [k \in 1 .. T |-> ExpBranchAt(hg, m, k - 1)]
ExpFused(hg) ==
    [k \in 1 .. T |-> Reconstruction(hg,
        <<ExpSpatial(hg)[k]>> \o [c \in 1 .. 4 |-> <<Modules[c], k - 1>>])]
ExpDepth(hg) == [k \in 1 .. T |-> PredDepth(hg, ExpFused(hg)[k], lqs.frames[k])]
ExpConf(hg) == [k \in 1 .. T |-> PredConf(hg, ExpFused(hg)[k])]
\* the branches that are complete and not yet consumed by upsample
CompleteBranches ==
    IF pc \in {"select_flows", "propagate"} THEN 1 .. module - 1
    ELSE IF pc = "upsample" /\ i = 0 THEN 1 .. 4
    ELSE {}

\* the inputs and the mirror flag with which a stage-forward call cannot return,
\* whether it runs batched or under offload
StageMustFail ==
    \/ scale % 4 # 0
    \/ Len(guides.frames) # T
    \/ T = 1
    \/ is_mirror_extended

\* C7: spatial features, flows, branch outputs, depths and confidences of a
\* stage, and whether the stage fails, are the same function of the call's
\* inputs (and of the mirror flag) whether or not CPU offload is in effect.
C7_ModeIndependent ==
    /\ pc \in {"compute_flow", "interpolate", "select_flows", "propagate", "upsample"}
          => (feats["spatial"] = ExpSpatial(hg_idx) /\ scale % 4 = 0)
    /\ pc = "interpolate" =>
          /\ flows_backward.val = BackwardFlowOf(hg_idx, guides.frames)
          /\ flows_forward.none = is_mirror_extended
          /\ ~flows_forward.none => flows_forward.val = ForwardFlowOf(hg_idx, guides.frames)
    /\ pc \in {"select_flows", "propagate", "upsample"} =>
          /\ ~is_mirror_extended
          /\ flows_backward.val = ExpFlows(hg_idx, "backward_1")
          /\ flows_forward.val = ExpFlows(hg_idx, "forward_1")
    /\ \A b \in CompleteBranches : feats[Modules[b]] = ExpBranch(hg_idx, Modules[b])
    /\ (hg_idx = 1 /\ stage1.returned) =>
          /\ stage1.depth = ExpDepth(1)
          /\ stage1.conf = ExpConf(1)
          /\ stage1.feats.val = ExpFused(1)
    /\ stage2.returned => (stage2.depth = ExpDepth(2) /\ stage2.conf = ExpConf(2))
    /\ (pc = "error" /\ err.kind = "AttributeError") => is_mirror_extended
    /\ (pc = "error" /\ err.line \notin {92, 695}) => StageMustFail
    /\ (pc = "error" /\ err.line \in {92, 695})
          => (variant = "HVSR" /\ ~ErrorBinsOK(side.cdf_c, side.rebin_c))
    /\ pc \in {"select_flows", "propagate", "upsample", "stage1_returned", "side_ready",
               "stage2_returned", "done"} => ~StageMustFail
    /\ pc \in {"side_ready", "stage2_returned", "done"}
          => (variant = "HVSR" => ErrorBinsOK(side.cdf_c, side.rebin_c))

\* C7 witness: a call has returned under CPU offload, both stages having run
\* frame-sequentially.
C7_Witness ==
    /\ pc = "done"
    /\ cpu_cache
    /\ result.returned
    /\ T >= 3

\* C8: during a stage-forward call the offload flag is True exactly when T
\* exceeds cpu_cache_length and the input is on the accelerator, and no step
\* after the entry of hg_forward changes it.
C8_OffloadFlag ==
    /\ [](InStage => (cpu_cache = (T > cpu_cache_length /\ is_cuda)))
    /\ [][pc # "hg_forward" => cpu_cache' = cpu_cache]_vars

\* C8 witness: an accelerator input whose length equals the threshold is
\* propagating without offload.
C8_Witness ==
    /\ pc = "propagate"
    /\ is_cuda
    /\ T = cpu_cache_length
    /\ ~cpu_cache

\* the shape (T, 1, s*H, s*W) of a returned tensor
ShapeOK(frames, c, h, w) ==
    /\ Len(frames) = Len(in_lqs.frames)
    /\ c = 1
    /\ h = scale * in_lqs.h
    /\ w = scale * in_lqs.w

C10_DocumentedSplit ==
    (variant = "HVSR" /\ pc # "idle" /\ in_lqs.c = mpeaks + 2 * (2 * mpeaks + 2)) =>
        /\ lqs.c = mpeaks
        /\ side.cdf_c = 2 * mpeaks + 2
        /\ side.rebin_c = 2 * mpeaks + 2
        /\ InputCdfBins(side.cdf_c) = PredCdfBins(side.rebin_c)
        /\ PredCdfBins(side.rebin_c) = DeltaBins(side.rebin_c)

C17_BranchInFrameOrder ==
    /\ \A b \in CompleteBranches :
          /\ Len(feats[Modules[b]]) = T
          /\ \A k \in 1 .. T :
                /\ Tag(feats[Modules[b]][k]) = <<Modules[b], k - 1>>
                /\ feats[Modules[b]][k].cur = feats["spatial"][k]
    /\ pc = "propagate" =>
          LET m == Modules[module]
          IN  /\ Len(feats[m]) = i
              /\ \A j \in 1 .. Len(feats[m]) :
                    Tag(feats[m][j]) = <<m, IF IsBackward(m) THEN T - j ELSE j - 1>>

\* C17 witness: the second backward pass of stage 2 has completed and been
\* reversed on a sequence of at least three frames.
C17_Witness ==
    /\ pc = "select_flows"
    /\ hg_idx = 2
    /\ module = 4
    /\ T >= 3
    /\ Len(feats["backward_2"]) = T

\* C18 as stated: a pass runs T+1 steps, i = 0..T, and its step i = 0 produces
\* no propagated frame.
C18_SeedStepProducesNothing ==
    /\ (pc = "propagate" /\ step.i = 0) => Len(feats[Modules[module]]) = 0
    /\ (pc \in {"select_flows", "upsample"} /\ step.i >= 0) => step.i = T

\* C18 amended: a pass runs T steps, i = 0..T-1, one per frame; step i = 0
\* performs no alignment and every step i >= 1 does; every step, step 0
\* included, appends exactly one propagated frame.
C18_OneFramePerStep ==
    /\ pc = "propagate" =>
          /\ i \in 0 .. T - 1
          /\ Len(feats[Modules[module]]) = i
          /\ step.i = i - 1
    /\ step.i >= 0 =>
          /\ step.i \in 0 .. T - 1
          /\ step.out.aligned = (step.i > 0)
          /\ step.i = 0 => (step.out.acc = ZeroTag /\ step.out.flow_n1 = ZeroFlow)
    /\ (pc \in {"select_flows", "upsample"} /\ step.i >= 0) =>
          /\ step.i = T - 1
          /\ (pc = "select_flows" \/ i = 0) => Len(feats[step.out.br]) = T

\* C18 witness: the seed step of a forward pass has appended the frame of index 0.
C18_Witness ==
    /\ pc = "propagate"
    /\ step.i = 0
    /\ Modules[module] = "forward_1"
    /\ Len(feats["forward_1"]) = 1
    /\ Tag(feats["forward_1"][1]) = <<"forward_1", 0>>
    /\ ~step.out.aligned

\* the resized flow field of the pair (previous frame, current frame) of a pass
\* at frame k (0-based): previous is k - 1 going forward, k + 1 going backward
PairFlow(hg, m, k) ==
    IF IsBackward(m)
    THEN Interpolate(SPyNet(hg, PyAt(guides.frames, k), PyAt(guides.frames, k + 1)))
    ELSE Interpolate(SPyNet(hg, PyAt(guides.frames, k), PyAt(guides.frames, k - 1)))
\* the frame a pass visited one step before frame k
PrevFrame(m, k) == IF IsBackward(m) THEN k + 1 ELSE k - 1

\* C19: at a step i > 0, flow_1 is the field of the pair (previous frame,
\* current frame), read at subscript i-1 going forward and at the current frame
\* index going backward; at i > 1, flow_2 is the field of the pair visited one
\* step earlier; every subscript read lies in 0..T-2.
C19_FlowSubscripts ==
    step.i >= 0 =>
        LET m == step.out.br
            k == step.idx
        IN  /\ Len(step.flow_reads) = (IF step.i > 1 THEN 2 ELSE step.i)
            /\ \A c \in 1 .. Len(step.flow_reads) : step.flow_reads[c] \in 0 .. T - 2
            /\ step.i > 0 =>
                  /\ step.flow_reads[1] = (IF IsBackward(m) THEN k ELSE step.i - 1)
                  /\ step.out.flow_n1 = PairFlow(hg_idx, m, k)
            /\ step.i > 1 =>
                  /\ step.flow_reads[2] = (IF IsBackward(m) THEN k + 1 ELSE step.i - 2)
                  /\ step.out.flow_n2 = PairFlow(hg_idx, m, PrevFrame(m, k))

\* C19 witness: a backward pass is at its third step and has read two fields.
C19_Witness ==
    /\ pc = "propagate"
    /\ step.i = 2
    /\ IsBackward(step.out.br)
    /\ step.flow_reads = <<T - 3, T - 2>>

\* C16: init_weights raises TypeError exactly when pretrained is neither a str
\* nor None; with None it makes no load and leaves the weights as they were;
\* with a str it calls load_checkpoint on that path with the given strict.
C16_InitWeightsTypes ==
    /\ [](aux.called =>
            /\ (aux.raised = "TypeError") <=> (aux.pretrained.type \notin {"str", "NoneType"})
            /\ aux.pretrained.type = "NoneType" => (aux.raised = "" /\ ~aux.load.made)
            /\ aux.pretrained.type = "str" =>
                  /\ aux.load = [path |-> aux.pretrained.val, strict |-> aux.strict, made |-> TRUE]
                  /\ aux.raised = "" => aux.weights = [from |-> aux.pretrained.val,
                                                       strict |-> aux.strict]
            /\ aux.pretrained.type # "str" => ~aux.load.made)
    /\ [][(aux'.pretrained.type # "str" \/ aux'.raised # "") => aux'.weights = aux.weights]_vars

\* C16 witness: a pathlib path to a checkpoint was refused with TypeError on an
\* instance that had loaded another checkpoint before.
C16_Witness ==
    /\ aux.fn = "init_weights"
    /\ aux.called
    /\ aux.pretrained = [type |-> "PosixPath", val |-> "a.pth"]
    /\ aux.raised = "TypeError"
    /\ aux.weights.from = "b.pth"

\* C13: at every pixel of every frame the two softmax weights are in [0,1] and
\* sum to 1, and the final depth is depth2*w2 + depth1*w1, which lies between
\* the two stage depths.
C13_ConvexBlend ==
    (aux.fn = "blend" /\ aux.at \in {"weights", "final"}) =>
        \A k \in BlendFrames :
            LET w1 == aux.rgb_conf[k]
                w2 == aux.d_conf[k]
            IN  /\ w1.den > 0 /\ w2.den > 0
                /\ w1.num >= 0 /\ w1.num <= w1.den
                /\ w2.num >= 0 /\ w2.num <= w2.den
                /\ FracEq(FracAdd(w1, w2), Frac(1, 1))
                /\ aux.at = "final" =>
                      LET f == aux.depth_final[k]
                          lo == Min2(aux.rgb_depth[k], aux.d_depth[k])
                          hi == Max2(aux.rgb_depth[k], aux.d_depth[k])
                      IN  /\ f.den > 0
                          /\ FracEq(f, FracAdd(FracMul(Frac(aux.d_depth[k], 1), w2),
                                                FracMul(Frac(aux.rgb_depth[k], 1), w1)))
                          /\ FracLe(Frac(lo, 1), f)
                          /\ FracLe(f, Frac(hi, 1))

\* C13 witness: a blended sequence whose first frame has confidences so far
\* apart that one weight underflows to 0, and whose second frame has close
\* confidences and a final depth strictly between two different stage depths.
C13_Witness ==
    /\ aux.fn = "blend"
    /\ aux.at = "final"
    /\ aux.conf1[1] = -MaxConf /\ aux.conf2[1] = MaxConf
    /\ aux.rgb_conf[1].num = 0
    /\ aux.conf1[2] = 1 /\ aux.conf2[2] = 0
    /\ aux.rgb_depth[2] = -1 /\ aux.d_depth[2] = 2
    /\ ~FracLe(aux.depth_final[2], Frac(-1, 1))
    /\ ~FracLe(Frac(2, 1), aux.depth_final[2])

\* C14: at every pixel (y, x) get_pos_encoding returns (y/H, x/W), then the
\* pixel's offset from the centre of its pitch x pitch patch divided by pitch,
\* then that centre's normalized position; the same for every batch item and
\* frame.  The centre of the patch with first row r is r + (pitch - 1)/2.
C14_RelativeToPatchCentre ==
    (aux.fn = "get_pos_encoding" /\ aux.at = "returned" /\ aux.raised = "") =>
        \A ix \in DOMAIN aux.pos_encoding :
            LET y == ix[3]
                x == ix[4]
                e == aux.pos_encoding[ix]
                cy == Frac(2 * (y \div aux.pitch) * aux.pitch + aux.pitch - 1, 2)
                cx == Frac(2 * (x \div aux.pitch) * aux.pitch + aux.pitch - 1, 2)
            IN  /\ Len(e) = 6
                /\ FracEq(e[1], Frac(y, aux.H))
                /\ FracEq(e[2], Frac(x, aux.W))
                /\ FracEq(e[3], Frac(2 * y * cy.den - 2 * cy.num, 2 * cy.den * aux.pitch))
                /\ FracEq(e[4], Frac(2 * x * cx.den - 2 * cx.num, 2 * cx.den * aux.pitch))
                /\ FracEq(e[5], Frac(cy.num, cy.den * aux.H))
                /\ FracEq(e[6], Frac(cx.num, cx.den * aux.W))
                /\ e = aux.pos_encoding[<<1, 1, y, x>>]

\* C11: a sensor patch whose input CDF is zero in every bin has error exactly
\* -1 before the upsample; after it every pixel of every patch holds the value
\* its patch had before, so the pitch x pitch pixels of such a patch hold -1 and
\* no other patch is altered.
C11_SentinelSurvivesUpsample ==
    /\ []((aux.fn = "get_inp_error" /\ aux.at \in {"marked", "returned"}) =>
            \A px \in 0 .. aux.w - 1 :
                (\A k \in 1 .. Len(aux.cdf[px]) : aux.cdf[px][k] = 0) =>
                    IF aux.at = "marked"
                    THEN aux.inp_error[px] = -Unit
                    ELSE \A y \in 0 .. aux.pitch - 1 :
                         \A x \in px * aux.pitch .. (px + 1) * aux.pitch - 1 :
                             aux.inp_error[<<y, x>>] = -Unit)
    /\ [][(aux.fn = "get_inp_error" /\ aux.at = "marked") =>
            /\ DOMAIN aux'.inp_error
                 = (0 .. aux.pitch - 1) \X (0 .. aux.w * aux.pitch - 1)
            /\ \A ix \in DOMAIN aux'.inp_error :
                 aux'.inp_error[ix] = aux.inp_error[ix[2] \div aux.pitch]]_vars

\* C11 witness: a returned map for two patches of 2 x 2 pixels, the first
\* without measurement and -1 throughout, the second with a positive error.
C11_Witness ==
    /\ aux.fn = "get_inp_error"
    /\ aux.at = "returned"
    /\ aux.w = 2 /\ aux.pitch = 2
    /\ aux.cdf[0] = <<0, 0, 0, 0>>
    /\ aux.cdf[1] # <<0, 0, 0, 0>>
    /\ \A ix \in {<<0, 0>>, <<0, 1>>, <<1, 0>>, <<1, 1>>} : aux.inp_error[ix] = -Unit
    /\ \A ix \in {<<0, 2>>, <<0, 3>>, <<1, 2>>, <<1, 3>>} : aux.inp_error[ix] > 0

\* the guide's channel mean is non-negative at every pixel
NonNegativeGuide == \A ix \in DOMAIN aux.img : Albedo(aux.img[ix]) >= 0

\* the histogram sums are non-negative and the predicted CDF is non-decreasing
\* along the bin axis and within [0, 1]
HistAndCdfInRange ==
    /\ aux.at \in {"hist", "cdf", "error", "marked", "returned"} =>
          \A px \in 0 .. aux.w - 1 : SumSeq(aux.hist_pred[px]) >= 0
    /\ aux.at \in {"cdf", "error", "marked", "returned"} =>
          \A px \in 0 .. aux.w - 1 :
              \A k \in 1 .. Len(aux.cdf_pred[px]) :
                  /\ aux.cdf_pred[px][k] >= 0
                  /\ aux.cdf_pred[px][k] <= Unit
                  /\ k > 1 => aux.cdf_pred[px][k - 1] <= aux.cdf_pred[px][k]

\* C12 as stated: for any depth map and any guide image the per-patch bin sums
\* of dtof_hist_torch are non-negative and the predicted CDF is non-decreasing
\* and within [0, 1].
C12_AnyGuide == aux.fn = "get_inp_error" => HistAndCdfInRange

\* C12 amended: the same for any depth map and any guide image whose channel
\* mean is non-negative at every pixel.
C12_NonNegativeGuide ==
    (aux.fn = "get_inp_error" /\ NonNegativeGuide) => HistAndCdfInRange

\* C12 witness: a guide with non-negative channel means and depths outside
\* [0, 1]; the pixels of one patch fall into two bins and the predicted CDF
\* rises strictly over them.
C12_Witness ==
    /\ aux.fn = "get_inp_error"
    /\ aux.at = "cdf"
    /\ NonNegativeGuide
    /\ aux.pitch = 2
    /\ \E ix \in DOMAIN aux.pred : aux.pred[ix] > Unit
    /\ \E ix \in DOMAIN aux.pred : aux.pred[ix] < 0
    /\ 0 < aux.cdf_pred[0][1]
    /\ aux.cdf_pred[0][1] < aux.cdf_pred[0][3]

\* the step the alignment locals in aux belong to
AlignedStep == aux.i - 1
\* every flow of the sequence is the same constant displacement
SameFlowEverywhere == \A k \in 1 .. Len(aux.flows) : aux.flows[k] = aux.flows[1]

\* what C20 says of the second-order feature and of step 1
SecondOrderInputs ==
    /\ AlignedStep > 1 =>
          /\ aux.feat_n2 = <<aux.module,
                             PyAt(FrameIdx(aux.module, Len(aux.flows)), AlignedStep - 2)>>
          /\ aux.feat_n2 = aux.own[Len(aux.own) - 2]
          /\ aux.feat_n2 # aux.feat_prop
          /\ aux.feat_n2 # aux.own[Len(aux.own) - 1]
          /\ aux.cond_n2 = [op |-> "flow_warp", x |-> aux.feat_n2, flow |-> aux.flow_n2]
          /\ \A p \in AlignPixels :
                aux.flow_n2[p] = VecAdd(aux.flow_n1[p],
                    flow_warp(PyAt(aux.flows, PyAt(FlowIdx(aux.module, Len(aux.flows)),
                                                   AlignedStep - 1)),
                              aux.flow_n1, aux.padding)[p])
    /\ AlignedStep = 1 =>
          /\ aux.feat_n2 = ZeroTag
          /\ \A p \in AlignPixels : aux.flow_n2[p] = ZeroVec
          /\ aux.cond_n2.op = "zeros"

C21_SeedFrameAndBlocks ==
    step.i >= 0 =>
        LET k == BranchNo(step.out.br) - 1
            blocks == <<step.out.cur>> \o step.out.others \o <<step.out.acc>>
        IN  /\ step.i = 0 =>
                  /\ step.idx = (IF IsBackward(step.out.br) THEN T - 1 ELSE 0)
                  /\ ~step.out.aligned
                  /\ step.out.acc = ZeroTag
                  /\ step.out.flow_n1 = ZeroFlow /\ step.out.flow_n2 = ZeroFlow
                  /\ step.out.n2 = ZeroTag
                  /\ step.out.cur = PyAt(feats["spatial"], step.idx)
            /\ {step.reads[c].key : c \in 1 .. Len(step.reads)}
                 = {Modules[c] : c \in 1 .. k}
            /\ step.out.br = "backward_1" => step.reads = <<>>
            /\ step.out.br = "forward_2" =>
                  {step.reads[c].key : c \in 1 .. Len(step.reads)}
                    = {"backward_1", "forward_1", "backward_2"}
            /\ step.out.others = [c \in 1 .. k |-> <<Modules[c], step.idx>>]
            /\ Len(blocks) = 2 + k

\* C21 witness: the seed step of forward_2 in stage 2, at frame 0, over five
\* blocks.
C21_Witness ==
    /\ pc = "propagate"
    /\ hg_idx = 2
    /\ step.i = 0
    /\ step.out.br = "forward_2"
    /\ step.idx = 0
    /\ Len(step.out.others) = 3
    /\ ~step.out.aligned

\* the values a branch list holds for one frame
Stored(fs, b, k) == {fs[Modules[b]][j] : j \in {j \in 1 .. Len(fs[Modules[b]]) : fs[Modules[b]][j].fr = k}}

\* a step leaves every value the branch lists hold where it was
KeepsStored ==
    \A b \in 1 .. 4 : \A k \in 0 .. T - 1 :
        Stored(feats, b, k) # {} => Stored(feats', b, k) = Stored(feats, b, k)

\* C22: a pass visits every frame index 0..T-1 exactly once, in strictly
\* increasing order going forward and strictly decreasing order going backward,
\* and from the step that appends it until the last pass has ended the value a
\* branch holds for a frame stays the one that was appended, the reversal of a
\* backward list included.
C22_VisitOnceAndKeep ==
    /\ [](pc = "propagate" =>
            LET l == feats[Modules[module]]
            IN  /\ \A j \in 1 .. Len(l) - 1 :
                      IF IsBackward(Modules[module]) THEN l[j + 1].fr < l[j].fr
                                                     ELSE l[j + 1].fr > l[j].fr
                /\ \A j \in 1 .. Len(l) : l[j].fr \in 0 .. T - 1
                /\ step.i >= 0 => (l # <<>> /\ l[Len(l)] = step.out /\ step.idx = step.out.fr))
    /\ [](\A b \in CompleteBranches :
            /\ {feats[Modules[b]][j].fr : j \in 1 .. Len(feats[Modules[b]])} = 0 .. T - 1
            /\ \A k \in 0 .. T - 1 : Cardinality(Stored(feats, b, k)) = 1)
    /\ [][(pc \in {"select_flows", "propagate"}) => KeepsStored]_vars

\* C22 witness: the second backward pass of stage 2 is running under offload
\* while the reversed first backward list still holds its T outputs.
C22_Witness ==
    /\ pc = "propagate"
    /\ cpu_cache
    /\ hg_idx = 2
    /\ Modules[module] = "backward_2"
    /\ Len(feats["backward_2"]) = 2
    /\ Len(feats["backward_1"]) = T
    /\ feats["backward_1"][1].fr = 0

\* one frame of upsample takes the head off every branch list and leaves the
\* spatial list alone
TakesHeads ==
    /\ feats'["spatial"] = feats["spatial"]
    /\ \A b \in 1 .. 4 :
          /\ feats[Modules[b]] # <<>>
          /\ feats'[Modules[b]] = Tail(feats[Modules[b]])

\* C23: frame i of upsample is reconstructed from the concatenation [spatial
\* feature i, output i of backward_1, forward_1, backward_2, forward_2], each
\* frame takes one element off the head of each of the four branch lists and
\* none off the spatial list, so that the branch lists are empty once frame
\* T-1 is done, and the depth of frame i is the predicted depth channel plus
\* the measurement frame i upsampled by 4.
C23_UpsampleFrameByFrame ==
    /\ [](pc = "upsample" =>
            /\ i \in 0 .. T - 1
            /\ Len(feats["spatial"]) = T
            /\ \A b \in 1 .. 4 :
                  /\ Len(feats[Modules[b]]) = T - i
                  /\ \A j \in 1 .. T - i : Tag(feats[Modules[b]][j]) = <<Modules[b], i + j - 1>>
            /\ Len(ups.depths) = i /\ Len(ups.confs) = i /\ Len(ups.feats_fused) = i
            /\ \A k \in 1 .. i :
                  /\ ups.feats_fused[k].x =
                        <<feats["spatial"][k], <<"backward_1", k - 1>>, <<"forward_1", k - 1>>,
                          <<"backward_2", k - 1>>, <<"forward_2", k - 1>>>>
                  /\ ups.depths[k].x = ups.feats_fused[k]
                  /\ ups.depths[k].lq = lqs.frames[k]
                  /\ ups.confs[k].x = ups.feats_fused[k])
    /\ [](pc \in {"stage1_returned", "stage2_returned"} =>
            LET ret == IF pc = "stage1_returned" THEN stage1 ELSE stage2
            IN  /\ \A b \in 1 .. 4 : feats[Modules[b]] = <<>>
                /\ Len(feats["spatial"]) = T
                /\ Len(ret.depth) = T
                /\ ret.h = 4 * lqs.h /\ ret.w = 4 * lqs.w)
    /\ [][(pc = "upsample" /\ pc' # "error") => TakesHeads]_vars

\* C23 witness: the last frame of stage 2's upsample has run on a sequence of
\* three frames and left the four branch lists empty.
C23_Witness ==
    /\ pc = "stage2_returned"
    /\ T = 3
    /\ feats["forward_2"] = <<>>
    /\ Len(feats["spatial"]) = 3
    /\ Len(stage2.depth) = 3
    /\ stage2.depth[3].x.x[2] = <<"backward_1", 2>>

\* the two halves of a softmax over the stage axis add up to one
HalvesSumToOne ==
    \A a \in {-MaxConf, 0, 1, MaxConf}, b \in {-MaxConf, 0, 1, MaxConf} :
        LET w == softmax([k \in BlendFrames |-> <<a, b>>])[1]
        IN  FracEq(FracAdd(w[1], w[2]), Frac(1, 1))

\* C27: the 'rgb_conf' and 'd_conf' that forward returns are the two halves of
\* one softmax over the stage axis of (stage-1 confidence, stage-2 confidence),
\* not the confidences the stages predicted; the confidence handed to stage 2
\* is stage 1's prediction itself; the returned 'rgb_depth' and 'd_depth' are
\* the stages' own depths, before blending.
C27_ReturnedWeights ==
    /\ HalvesSumToOne
    /\ pc = "done" =>
          /\ result.returned
          /\ Len(result.rgb_conf) = T /\ Len(result.d_conf) = T
          /\ \A k \in 1 .. T :
                /\ result.rgb_conf[k] = SoftmaxWeight(1, stage1.conf[k], stage2.conf[k])
                /\ result.d_conf[k] = SoftmaxWeight(2, stage1.conf[k], stage2.conf[k])
                /\ result.rgb_conf[k] # stage1.conf[k]
                /\ result.d_conf[k] # stage2.conf[k]
                /\ stage1.conf[k].op = "conf" /\ stage1.conf[k].hg = 1
                /\ stage2.conf[k].op = "conf" /\ stage2.conf[k].hg = 2
                /\ result.rgb_depth[k] = stage1.depth[k] /\ result.rgb_depth[k].op = "depth"
                /\ result.d_depth[k] = stage2.depth[k] /\ result.d_depth[k].op = "depth"
                /\ result.depth_final[k] =
                      BlendDepth(result.d_depth[k], result.d_conf[k],
                                 result.rgb_depth[k], result.rgb_conf[k])
          /\ \E c \in 1 .. Len(extra_inputs.parts) :
                /\ extra_inputs.parts[c].name = "rgb_conf"
                /\ extra_inputs.parts[c].val = stage1.conf
                /\ extra_inputs.parts[c].val # result.rgb_conf
    /\ (hg_idx = 2 /\ InStage) =>
          \A c \in 1 .. Len(extra_inputs.parts) : \A k \in 1 .. T :
              extra_inputs.parts[c].name = "rgb_conf" => extra_inputs.parts[c].val[k].op = "conf"

\* C27 witness: an HVSR call on three frames has returned its blend and the
\* intermediates.
C27_Witness ==
    /\ pc = "done"
    /\ variant = "HVSR"
    /\ T = 3
    /\ result.returned
    /\ result.rgb_conf[3].op = "softmax"
    /\ result.rgb_conf[3].a = stage1.conf[3]

\* the pixels of patch px, the bin number dtof_hist_torch gives pixel n of the
\* patch (the number of boundaries of rebin_idx[:, :-1] not above its rounded
\* depth index) and the intensity of that pixel
BinOf(px, n) ==
    LET ix == PatchPixels(px, aux.pitch)[n]
        b == DropLast(aux.rebin_idx[px])
    IN  Cardinality({j \in 1 .. Len(b) :
            Round(Clamp01(aux.pred[ix]) * (aux.temp_res - 1)) >= b[j]})
PixelR(px, n) ==
    LET ix == PatchPixels(px, aux.pitch)[n]
    IN  Intensity(Albedo(aux.img[ix]), Clamp01(aux.pred[ix]))
\* every predicted depth of the call lies in [0,1]
DepthsInRange == \A ix \in DOMAIN aux.pred : aux.pred[ix] \in 0 .. Unit
HistComputed == aux.fn = "get_inp_error" /\ aux.at = "hist"

\* C25 as stated: for depths in [0,1] every pixel falls in exactly one of the M
\* bins, so the histogram of a patch summed over its bins is the sum of r over
\* all pixels of the patch.
C25_EveryPixelInOneBin ==
    (HistComputed /\ DepthsInRange) =>
        \A px \in 0 .. aux.w - 1 :
            /\ \A n \in 1 .. aux.pitch * aux.pitch :
                  BinOf(px, n) \in 1 .. Len(aux.hist_pred[px])
            /\ SumSeq(aux.hist_pred[px]) =
                  SumSeq([n \in 1 .. aux.pitch * aux.pitch |-> PixelR(px, n)])

\* C25 amended: a pixel whose rounded depth index reaches c >= 1 boundaries adds
\* its r to bin c of its patch and to no other bin, a pixel with c = 0 adds to
\* no bin; the histogram of a patch summed over its bins is the sum of r over
\* the pixels of the patch with c >= 1, which are all its pixels when the
\* smallest boundary is 0.
C25_AtMostOneBin ==
    HistComputed =>
        \A px \in 0 .. aux.w - 1 :
            LET np == aux.pitch * aux.pitch
                M == Len(aux.rebin_idx[px]) - 1
            IN  /\ Len(aux.hist_pred[px]) = M
                /\ \A n \in 1 .. np : BinOf(px, n) \in 0 .. M
                /\ \A k \in 1 .. M :
                      aux.hist_pred[px][k] =
                          SumSeq([n \in 1 .. np |-> IF BinOf(px, n) = k THEN PixelR(px, n) ELSE 0])
                /\ SumSeq(aux.hist_pred[px]) =
                      SumSeq([n \in 1 .. np |-> IF BinOf(px, n) >= 1 THEN PixelR(px, n) ELSE 0])
                /\ aux.rebin_idx[px][1] = 0 =>
                      SumSeq(aux.hist_pred[px]) = SumSeq([n \in 1 .. np |-> PixelR(px, n)])

\* C25 witness: a patch of four pixels holds a pixel with depth in [0,1] and
\* positive intensity whose rounded index is below every boundary, next to a
\* pixel that falls in a bin.
C25_Witness ==
    /\ HistComputed
    /\ aux.pitch = 2
    /\ \E n \in 1 .. 4 :
          /\ aux.pred[PatchPixels(0, 2)[n]] \in 0 .. Unit
          /\ BinOf(0, n) = 0
          /\ PixelR(0, n) > 0
    /\ \E n \in 1 .. 4 : BinOf(0, n) >= 1 /\ PixelR(0, n) > 0

\* the input CDFs are non-negative and the rebin indices non-decreasing along
\* the bin axis
SensorContextOK ==
    \A px \in 0 .. aux.w - 1 :
        /\ \A k \in 1 .. Len(aux.cdf[px]) : aux.cdf[px][k] >= 0
        /\ \A k \in 1 .. Len(aux.rebin_idx[px]) - 1 :
              aux.rebin_idx[px][k] <= aux.rebin_idx[px][k + 1]
NoMeasurement(px) == \A k \in 1 .. Len(aux.cdf[px]) : aux.cdf[px][k] = 0

\* C26: with non-negative input CDFs and non-decreasing rebin indices the
\* returned error map is -1 at exactly the pixels of the patches whose input
\* CDF is zero in every bin, and is >= 0 at every other pixel; the error
\* computed before the sentinel is written is >= 0 everywhere.
C26_SentinelIffNoMeasurement ==
    (aux.fn = "get_inp_error" /\ SensorContextOK) =>
        /\ aux.at = "error" => \A px \in 0 .. aux.w - 1 : aux.inp_error[px] >= 0
        /\ aux.at = "marked" =>
              \A px \in 0 .. aux.w - 1 :
                  /\ (aux.inp_error[px] = -Unit) <=> NoMeasurement(px)
                  /\ ~NoMeasurement(px) => aux.inp_error[px] >= 0
        /\ aux.at = "returned" =>
              \A ix \in DOMAIN aux.inp_error :
                  /\ (aux.inp_error[ix] = -Unit) <=> NoMeasurement(ix[2] \div aux.pitch)
                  /\ ~NoMeasurement(ix[2] \div aux.pitch) => aux.inp_error[ix] >= 0

\* C26 witness: a returned map whose first patch has a measurement that the
\* prediction misses (every predicted depth below the first boundary) and a
\* positive error, and whose second patch has no measurement and holds -1.
C26_Witness ==
    /\ aux.fn = "get_inp_error"
    /\ aux.at = "returned"
    /\ SensorContextOK
    /\ aux.w = 2
    /\ aux.rebin_idx[0][1] > 0
    /\ ~NoMeasurement(0)
    /\ SumSeq(aux.hist_pred[0]) = 0
    /\ aux.inp_error[<<0, 0>>] > 0
    /\ NoMeasurement(1)
    /\ aux.inp_error[<<0, aux.pitch>>] = -Unit

\* the flow fields, spatial features and branch outputs on the device
DeviceArrays == aux.dev.flows + aux.dev.spatial + aux.dev.branch
\* the most arrays one propagation step of the last branch works on: two flow
\* fields, the spatial feature, feat_prop, feat_n2 and three earlier outputs
StepArrays == 2 + 1 + 5

\* C24: under CPU offload a flow field is on the host as soon as it has been
\* computed, so that compute_flow never holds more than the field it has just
\* computed on the device, and at every point of the stage-forward call the
\* flow fields, spatial features and branch outputs on the device are no more
\* than one propagation step works on, however long the sequence is.
C24_DeviceCeiling ==
    aux.fn = "hg_forward" =>
        /\ aux.at \in {"flows_backward", "flows_forward", "flows_cpu"} => aux.dev.flows <= 1
        /\ DeviceArrays <= StepArrays

====
